---- MODULE Spec2Model ----
(***************************************************************************)
(* Product matching of the UK retail food pricing scraper.                 *)
(*                                                                         *)
(* The model covers the similarity scorer and the segmenter of             *)
(* trolley_scraper_fixed.py (FixedTrolleyScraper) and the tiered match     *)
(* selector of enhanced_matcher.py (EnhancedProductMatcher).               *)
(*                                                                         *)
(* Conventions                                                             *)
(*  - Python str values are TLA+ strings; a character is a string of       *)
(*    length 1.  The alphabet is printable ASCII.                          *)
(*  - Regular expressions are data (sequences of items) interpreted by a   *)
(*    backtracking matcher with Python's leftmost / greedy / ordered       *)
(*    alternation semantics.                                               *)
(*  - Python floats that carry scores are exact integers in units of       *)
(*    1/Scale; quantities parsed from text are integers in units of        *)
(*    1/QScale.                                                            *)
(***************************************************************************)
EXTENDS Integers, Sequences, FiniteSets, TLC

VARIABLES op, query, cands, threshold, out, cache_dir, now, progress_file, run, finished

\* the state of the bulk runs: the progress file, the running script and the
\* record of the products whose processing has finished
bulk == <<progress_file, run, finished>>

vars == <<op, query, cands, threshold, out, cache_dir, now, bulk>>

\* the cache directory holds no file and the clock stands at its start
NoCache == cache_dir = {} /\ now = 0

\* there is no progress file
NoFile == [state |-> "absent"]

\* no script is running and none has run
NoRun == [pc |-> "none", runs |-> 0]

\* no bulk run has been started: no progress file, no product processed
NoBulk == progress_file = NoFile /\ run = NoRun /\ finished = {}

(***************************************************************************)
(* Characters and basic str methods                                        *)
(***************************************************************************)
UpperS == "ABCDEFGHIJKLMNOPQRSTUVWXYZ"
LowerS == "abcdefghijklmnopqrstuvwxyz"
DigitS == "0123456789"

UpperSet ==
  {"A", "B", "C", "D", "E", "F", "G", "H", "I", "J", "K", "L", "M", "N", "O", "P", "Q", "R", "S", "T", "U", "V", "W", "X", "Y", "Z"}
LowerSet ==
  {"a", "b", "c", "d", "e", "f", "g", "h", "i", "j", "k", "l", "m", "n", "o", "p", "q", "r", "s", "t", "u", "v", "w", "x", "y", "z"}
DigitSet == {"0", "1", "2", "3", "4", "5", "6", "7", "8", "9"}
SpaceSet == {" "}
\* \w of the re module on ASCII text
WordSet == UpperSet \cup LowerSet \cup DigitSet \cup {"_"}

At(s, i) == SubSeq(s, i, i)

LowerTable == [c \in UpperSet |-> At(LowerS, CHOOSE i \in 1..Len(UpperS) : At(UpperS, i) = c)]

LowerChar(c) == IF c \in UpperSet THEN LowerTable[c] ELSE c

RECURSIVE LowerRange(_, _, _)
\* the characters lo..hi of s in lower case, by halves
LowerRange(s, lo, hi) ==
  IF lo > hi THEN ""
  ELSE IF lo = hi THEN LowerChar(At(s, lo))
  ELSE LowerRange(s, lo, (lo + hi) \div 2) \o LowerRange(s, (lo + hi) \div 2 + 1, hi)

\* str.lower()
Lower(s) == LowerRange(s, 1, Len(s))

\* s[i:] with a 1-based first index
From(s, i) == SubSeq(s, i, Len(s))

StartsAt(hay, needle, i) == /\ i + Len(needle) - 1 <= Len(hay)
                            /\ SubSeq(hay, i, i + Len(needle) - 1) = needle

\* needle in hay
Contains(hay, needle) == \E i \in 1..(Len(hay) - Len(needle) + 1) : StartsAt(hay, needle, i)

\* str.find(), 1-based; 0 when absent
Find(hay, needle) ==
  IF Contains(hay, needle)
  THEN CHOOSE i \in 1..(Len(hay) - Len(needle) + 1) :
         /\ StartsAt(hay, needle, i)
         /\ \A j \in 1..(i - 1) : ~StartsAt(hay, needle, j)
  ELSE 0

RECURSIVE LStrip(_)
LStrip(s) == IF Len(s) > 0 /\ Head(s) \in SpaceSet THEN LStrip(Tail(s)) ELSE s

RECURSIVE RStrip(_)
RStrip(s) == IF Len(s) > 0 /\ At(s, Len(s)) \in SpaceSet
             THEN RStrip(SubSeq(s, 1, Len(s) - 1)) ELSE s

\* str.strip()
Strip(s) == RStrip(LStrip(s))

RECURSIVE SplitFrom(_, _, _)
SplitFrom(s, i, cur) ==
  IF i > Len(s) THEN (IF cur = "" THEN <<>> ELSE <<cur>>)
  ELSE IF At(s, i) \in SpaceSet
       THEN (IF cur = "" THEN <<>> ELSE <<cur>>) \o SplitFrom(s, i + 1, "")
       ELSE SplitFrom(s, i + 1, cur \o At(s, i))

\* str.split() on whitespace
Split(s) == SplitFrom(s, 1, "")

RECURSIVE JoinFrom(_, _)
JoinFrom(ws, i) == IF i > Len(ws) THEN ""
                   ELSE IF i = Len(ws) THEN ws[i]
                   ELSE ws[i] \o " " \o JoinFrom(ws, i + 1)

\* ' '.join(ws)
Join(ws) == JoinFrom(ws, 1)

Range(f) == {f[i] : i \in DOMAIN f}

Max(a, b) == IF a >= b THEN a ELSE b
Min(a, b) == IF a <= b THEN a ELSE b
Abs(a) == IF a >= 0 THEN a ELSE -a

(***************************************************************************)
(* The re module: patterns as data and a backtracking matcher              *)
(*                                                                         *)
(* An item is one of                                                       *)
(*   set   : a character class with a greedy quantifier {lo,hi}            *)
(*           (hi = -1: unbounded), negated when neg                        *)
(*   alt   : an ordered alternation of literal strings                     *)
(*   opt   : an optional sub-pattern, (?:...)?                             *)
(*   bnd   : \b      bos : ^      eos : $                                  *)
(*   open / close : the parentheses of capture group g                     *)
(* re.IGNORECASE is applied by matching the lowered subject against        *)
(* lower-case patterns; positions are those of the original string.        *)
(***************************************************************************)
Item(k, cs, neg, lo, hi, ws, sub, g) ==
  [k |-> k, cs |-> cs, neg |-> neg, lo |-> lo, hi |-> hi, ws |-> ws, sub |-> sub, g |-> g]

Cls(cs, lo, hi)    == Item("set", cs, FALSE, lo, hi, <<>>, <<>>, 0)
NotCls(cs, lo, hi) == Item("set", cs, TRUE, lo, hi, <<>>, <<>>, 0)
One(cs)  == Cls(cs, 1, 1)
Opt(cs)  == Cls(cs, 0, 1)
Star(cs) == Cls(cs, 0, -1)
Plus(cs) == Cls(cs, 1, -1)
Alt(ws)  == Item("alt", {}, FALSE, 1, 1, ws, <<>>, 0)
Lit(w)   == Alt(<<w>>)
OptSeq(sub) == Item("opt", {}, FALSE, 0, 1, <<>>, sub, 0)
Bnd == Item("bnd", {}, FALSE, 0, 0, <<>>, <<>>, 0)
Bos == Item("bos", {}, FALSE, 0, 0, <<>>, <<>>, 0)
Eos == Item("eos", {}, FALSE, 0, 0, <<>>, <<>>, 0)
GOpen(g)  == Item("open", {}, FALSE, 0, 0, <<>>, <<>>, g)
GClose(g) == Item("close", {}, FALSE, 0, 0, <<>>, <<>>, g)

NoCaps == <<<<0, 0>>, <<0, 0>>, <<0, 0>>>>
NoMatch == [ok |-> FALSE, b |-> 0, e |-> 0, caps |-> NoCaps]

InItem(it, c) == IF it.neg THEN c \notin it.cs ELSE c \in it.cs

RECURSIVE RunLen(_, _, _, _)
\* how many characters from pos on belong to the class, at most cap (cap = -1: no cap)
RunLen(it, s, pos, cap) ==
  IF cap = 0 \/ pos > Len(s) \/ ~InItem(it, At(s, pos)) THEN 0
  ELSE 1 + RunLen(it, s, pos + 1, IF cap = -1 THEN -1 ELSE cap - 1)

IsWordAt(s, i) == i >= 1 /\ i <= Len(s) /\ At(s, i) \in WordSet

RECURSIVE MatchHere(_, _, _, _)
RECURSIVE TryCount(_, _, _, _, _, _)
RECURSIVE TryAlt(_, _, _, _, _, _)

\* match the items p at position pos of s; e is the position after the match
MatchHere(p, s, pos, caps) ==
  IF Len(p) = 0 THEN [ok |-> TRUE, b |-> 0, e |-> pos, caps |-> caps]
  ELSE LET it == Head(p)
           rest == Tail(p)
       IN CASE it.k = "set" ->
                 LET n == RunLen(it, s, pos, it.hi)
                 IN TryCount(it, rest, s, pos, caps, n)
            [] it.k = "alt" -> TryAlt(it.ws, rest, s, pos, caps, 1)
            [] it.k = "opt" ->
                 LET r == MatchHere(it.sub \o rest, s, pos, caps)
                 IN IF r.ok THEN r ELSE MatchHere(rest, s, pos, caps)
            [] it.k = "bnd" ->
                 IF IsWordAt(s, pos - 1) # IsWordAt(s, pos)
                 THEN MatchHere(rest, s, pos, caps) ELSE NoMatch
            [] it.k = "bos" ->
                 IF pos = 1 THEN MatchHere(rest, s, pos, caps) ELSE NoMatch
            [] it.k = "eos" ->
                 IF pos = Len(s) + 1 THEN MatchHere(rest, s, pos, caps) ELSE NoMatch
            [] it.k = "open" ->
                 MatchHere(rest, s, pos, [caps EXCEPT ![it.g] = <<pos, pos>>])
            [] it.k = "close" ->
                 MatchHere(rest, s, pos, [caps EXCEPT ![it.g] = <<caps[it.g][1], pos>>])

\* greedy quantifier: the longest run first, then shorter ones
TryCount(it, rest, s, pos, caps, n) ==
  IF n < it.lo THEN NoMatch
  ELSE LET r == MatchHere(rest, s, pos + n, caps)
       IN IF r.ok THEN r ELSE TryCount(it, rest, s, pos, caps, n - 1)

\* ordered alternation: the first alternative that lets the rest match
TryAlt(ws, rest, s, pos, caps, i) ==
  IF i > Len(ws) THEN NoMatch
  ELSE LET r == IF StartsAt(s, ws[i], pos)
                THEN MatchHere(rest, s, pos + Len(ws[i]), caps) ELSE NoMatch
       IN IF r.ok THEN r ELSE TryAlt(ws, rest, s, pos, caps, i + 1)

RECURSIVE FirstMatch(_, _, _, _)
\* l when it is a position, else the first position of a match within lo..hi
MatchOr(l, p, s, lo, hi) == IF l # 0 THEN l ELSE FirstMatch(p, s, lo, hi)

\* the first position within lo..hi at which p matches, the positions tried from
\* left to right, by halves; 0 when there is none
FirstMatch(p, s, lo, hi) ==
  IF lo > hi THEN 0
  ELSE IF lo = hi THEN (IF MatchHere(p, s, lo, NoCaps).ok THEN lo ELSE 0)
  ELSE MatchOr(FirstMatch(p, s, lo, (lo + hi) \div 2), p, s, (lo + hi) \div 2 + 1, hi)

\* the match of p at position q; q = 0: there is none
MatchAt(p, s, q) == IF q = 0 THEN NoMatch ELSE [MatchHere(p, s, q, NoCaps) EXCEPT !.b = q]

\* re.search from position pos on: the leftmost match
SearchFrom(p, s, pos) == MatchAt(p, s, FirstMatch(p, s, pos, Len(s) + 1))

\* every match of p contains each literal that p requires, so that a subject without
\* one of them has no match
MayMatch(p, s) ==
  \A i \in DOMAIN p : (p[i].k = "alt" /\ Len(p[i].ws) = 1) => Contains(s, p[i].ws[1])

\* re.search(p, s)
Search(p, s) == IF MayMatch(p, s) THEN SearchFrom(p, s, 1) ELSE NoMatch

\* re.match(p, s)
Match(p, s) == LET r == MatchHere(p, s, 1, NoCaps) IN IF r.ok THEN [r EXCEPT !.b = 1] ELSE NoMatch

\* m.group(g) of a match on subject s
Group(s, m, g) == SubSeq(s, m.caps[g][1], m.caps[g][2] - 1)

RECURSIVE SubFrom(_, _, _, _, _)
\* re.sub from position pos on, m being the leftmost match from pos on
SubMatch(p, repl, s, low, pos, m) ==
  IF ~m.ok THEN From(s, pos)
  ELSE IF m.e > m.b
       THEN SubSeq(s, pos, m.b - 1) \o repl \o SubFrom(p, repl, s, low, m.e)
       ELSE SubSeq(s, pos, m.b - 1) \o repl \o At(s, m.b) \o SubFrom(p, repl, s, low, m.b + 1)

\* re.sub(p, repl, s); low is the subject the pattern is matched on (s itself, or
\* Lower(s) under re.IGNORECASE)
SubFrom(p, repl, s, low, pos) ==
  IF pos > Len(s) + 1 THEN "" ELSE SubMatch(p, repl, s, low, pos, SearchFrom(p, low, pos))

Sub(p, repl, s) == IF MayMatch(p, s) THEN SubFrom(p, repl, s, s, 1) ELSE s
SubI(p, repl, s) == IF MayMatch(p, Lower(s)) THEN SubFrom(p, repl, s, Lower(s), 1) ELSE s

\* float(text) of a text matched by \d+\.?\d* or \d+(?:\.\d+)?, in units of 1/QScale
QScale == 10 * 100

RECURSIVE DigitsVal(_, _)
DigitsVal(t, acc) ==
  IF Len(t) = 0 THEN acc
  ELSE DigitsVal(Tail(t), acc * 10 + ((CHOOSE i \in 1..10 : At(DigitS, i) = Head(t)) - 1))

\* int(text)
ParseInt(t) == DigitsVal(t, 0)

\* float(text) * QScale (exact for at most three decimals)
ParseFloat(t) ==
  LET dot == Find(t, ".")
      ip == IF dot = 0 THEN t ELSE SubSeq(t, 1, dot - 1)
      fp == IF dot = 0 THEN "" ELSE From(t, dot + 1)
      f3 == SubSeq(fp \o "000", 1, 3)
  IN ParseInt(ip) * QScale + ParseInt(f3)


(***************************************************************************)
(* FixedTrolleyScraper: segmenter, quantity extractor, multipack test      *)
(***************************************************************************)
\* the brand lexicon, in the order the code searches it
known_brands ==
  <<"Dr. Oetker", "Dr Oetker", "Charlie Bigham's", "Ainsley Harriott", "Nojo Tahir",
    "Alfez", "Al-fez", "Al Fez", "ALFEZ", "Al'Fez", "Baxters", "Kelloggs",
    "Great Scot", "Colman's", "Daddies", "Marshalls", "Natures Fi",
    "Fray Bento", "Wagamama", "WAGAMAMA", "Coca Cola", "Coca-Cola",
    "Dr Pepper", "Ko-Lee", "Schwartz", "Heinz", "Koka",
    "Tesco", "ASDA", "Sainsburys", "Sainsbury", "Ocado", "Morrisons",
    "Co-op", "Coop", "Walkers", "Pepsi", "Fanta", "Sprite", "7UP",
    "Lay's", "Pringles", "Doritos", "Oetker">>

\* (g|kg|ml|l|oz|lb|pack|packs|pieces?|items?)
QuantityUnits ==
  Alt(<<"g", "kg", "ml", "l", "oz", "lb", "pack", "packs", "pieces", "piece", "items", "item">>)

\* (g|kg|ml|l|oz|lb)
WeightUnits == Alt(<<"g", "kg", "ml", "l", "oz", "lb">>)

\* \d+\.?\d*
Number == <<Plus(DigitSet), Opt({"."}), Star(DigitSet)>>

\* ^\s*[-]\s*   (the en and em dash of the class are outside the alphabet)
LeadingDashRe == <<Bos, Star(SpaceSet), One({"-"}), Star(SpaceSet)>>

\* ^\d+\.?\d*(g|kg|ml|l|oz|lb|pack|packs|pieces?|items?)$
QuantityWordRe == <<Bos>> \o Number \o <<QuantityUnits, Eos>>

\* the stop-list of generic first words
common_words ==
  {"moroccan", "italian", "french", "spanish", "greek", "indian", "chinese", "japanese",
   "thai", "mexican", "mediterranean", "middle", "eastern", "western", "northern",
   "southern", "organic", "natural", "fresh", "premium", "deluxe", "classic",
   "traditional", "modern", "authentic", "original", "special", "extra", "super", "mega",
   "mini", "small", "large", "big", "tiny", "giant", "family", "single", "double",
   "triple", "multi", "mixed", "assorted", "variety", "selection", "collection", "range",
   "series", "line", "brand", "product", "food", "drink", "beverage", "snack", "meal",
   "dish", "recipe", "style", "flavor", "flavour", "taste", "aroma", "scent", "fragrance",
   "spice", "herb", "seasoning", "sauce", "dressing", "dip", "spread", "paste", "puree",
   "jam", "jelly", "marmalade", "syrup", "honey", "sugar", "salt", "pepper", "oil",
   "vinegar", "juice", "water", "milk", "cream", "cheese", "yogurt", "yoghurt", "butter",
   "bread", "cake", "cookie", "biscuit", "cracker", "chip", "crisp", "nut", "seed",
   "grain", "cereal", "pasta", "rice", "bean", "pea", "lentil", "chickpea", "vegetable",
   "fruit", "meat", "fish", "chicken", "beef", "pork", "lamb", "turkey", "duck",
   "seafood", "shellfish", "crustacean", "mollusk", "mollusc", "egg", "dairy", "vegan",
   "vegetarian", "gluten", "free", "wheat", "rye", "barley", "oat", "corn", "maize",
   "potato", "tomato", "onion", "garlic", "ginger", "chili", "chilli", "paprika", "cumin",
   "coriander", "turmeric", "curry", "masala", "tandoori", "kebab", "shish", "shawarma",
   "falafel", "hummus", "tabbouleh", "couscous", "cous", "quinoa", "bulgur", "farro",
   "spelt", "millet", "sorghum", "teff", "amaranth", "buckwheat", "kamut", "triticale",
   "durum", "semolina", "polenta", "grits", "hominy", "cornmeal", "flour", "powder",
   "granule", "flake", "piece", "slice", "chunk", "cube", "dice", "shred", "grate",
   "mince", "chop", "cut", "whole", "half", "quarter", "third", "fifth", "sixth",
   "seventh", "eighth", "ninth", "tenth", "dozen", "pack", "bottle", "can", "jar", "box",
   "bag", "tub", "pot", "carton", "sachet", "pouch", "wrapper", "container", "package",
   "bundle", "set", "kit", "assortment", "item", "goods", "merchandise", "stock",
   "inventory", "supply", "provision", "ration", "portion", "serving", "helping", "plate",
   "bowl", "cup", "glass", "mug", "tumbler"}

RECURSIVE LowerAll(_)
LowerAll(ws) == IF Len(ws) = 0 THEN <<>> ELSE <<Lower(Head(ws))>> \o LowerAll(Tail(ws))

\* brand.lower() of every lexicon entry
known_brands_lower == LowerAll(known_brands)

\* the index of the first lexicon entry whose lower-case form occurs in the name; 0 if none
FirstKnownBrand(product_lower) ==
  LET found == {i \in 1..Len(known_brands) : Contains(product_lower, known_brands_lower[i])}
  IN IF found = {} THEN 0 ELSE CHOOSE i \in found : \A j \in found : i <= j

\* the split at the lexicon entry k found in the name: the entry, and the text
\* after it without a leading dash
KnownBrandSplit(product_name, product_lower, k) ==
  [brand |-> known_brands[k],
   product |->
     Strip(Sub(LeadingDashRe, "",
               Strip(From(product_name,
                          Find(product_lower, known_brands_lower[k]) + Len(known_brands[k])))))]

\* the fallback with a leading quantity treated like a common word: no brand
FirstWordSplitNoSkip(product_name, words) ==
  IF Len(words) > 1 /\ ~Match(QuantityWordRe, Lower(words[1])).ok
                   /\ Lower(words[1]) \notin common_words
  THEN [brand |-> words[1], product |-> Join(Tail(words))]
  ELSE [brand |-> "", product |-> product_name]

\* no lexicon entry found: the first word as brand, unless it is a quantity or a
\* common word
FirstWordSplit(product_name, words) ==
  IF Len(words) > 1
  THEN IF Match(QuantityWordRe, Lower(words[1])).ok
       THEN IF Len(words) > 2
            THEN [brand |-> words[2], product |-> Join(SubSeq(words, 3, Len(words)))]
            ELSE [brand |-> "", product |-> product_name]
       ELSE IF Lower(words[1]) \in common_words
            THEN [brand |-> "", product |-> product_name]
            ELSE [brand |-> words[1], product |-> Join(Tail(words))]
  ELSE [brand |-> "", product |-> product_name]

\* the split for the index k of the first lexicon entry found, 0 if none
SplitAtBrand(product_name, product_lower, k) ==
  IF k > 0 THEN KnownBrandSplit(product_name, product_lower, k)
  ELSE FirstWordSplit(product_name, Split(product_name))

\* _extract_brand_and_product: [brand, product]; "" is the absent brand
ExtractBrandAndProduct(product_name) ==
  IF product_name = "" THEN [brand |-> "", product |-> ""]
  ELSE SplitAtBrand(product_name, Lower(product_name), FirstKnownBrand(Lower(product_name)))

\* the alias table of _are_brands_similar, in the order of the dict
brand_variations ==
  << <<"alfez", {"al-fez", "al fez", "al'fez"}>>,
     <<"al-fez", {"alfez", "al fez", "al'fez"}>>,
     <<"al fez", {"alfez", "al-fez", "al'fez"}>>,
     <<"al'fez", {"alfez", "al-fez", "al fez"}>>,
     <<"dr. oetker", {"dr oetker", "oetker"}>>,
     <<"dr oetker", {"dr. oetker", "oetker"}>>,
     <<"oetker", {"dr. oetker", "dr oetker"}>>,
     <<"sainsburys", {"sainsbury"}>>,
     <<"sainsbury", {"sainsburys"}>>,
     <<"wagamama", {"wagamama"}>>,
     <<"coca cola", {"coca-cola"}>>,
     <<"coca-cola", {"coca cola"}>> >>

\* _are_brands_similar with the second brand compared in its own casing
AreBrandsSimilarCased(brand1, brand2) ==
  LET brand1_lower == Strip(Lower(brand1))
      brand2_lower == Strip(brand2)
  IN \/ brand1_lower = brand2_lower
     \/ \E i \in 1..Len(brand_variations) :
          LET main_brand == brand_variations[i][1]
              variations == brand_variations[i][2]
          IN \/ brand1_lower = main_brand /\ brand2_lower \in variations
             \/ brand2_lower = main_brand /\ brand1_lower \in variations
             \/ brand1_lower \in variations /\ brand2_lower \in variations

\* _are_brands_similar
AreBrandsSimilar(brand1, brand2) ==
  LET brand1_lower == Strip(Lower(brand1))
      brand2_lower == Strip(Lower(brand2))
  IN \/ brand1_lower = brand2_lower
     \/ \E i \in 1..Len(brand_variations) :
          LET main_brand == brand_variations[i][1]
              variations == brand_variations[i][2]
          IN \/ brand1_lower = main_brand /\ brand2_lower \in variations
             \/ brand2_lower = main_brand /\ brand1_lower \in variations
             \/ brand1_lower \in variations /\ brand2_lower \in variations

\* \b\d+\.?\d*\s*(g|kg|ml|l|oz|lb|pack|packs|pieces?|items?)\b
QuantityRe == <<Bnd>> \o Number \o <<Star(SpaceSet), QuantityUnits, Bnd>>

\* [^\w\s-]
SpecialRe == <<NotCls(WordSet \cup SpaceSet \cup {"-"}, 1, 1)>>

\* \s+
SpacesRe == <<Plus(SpaceSet)>>

\* _clean_product_name_for_comparison
CleanProductNameForComparison(product_name) ==
  IF product_name = "" THEN ""
  ELSE Strip(Sub(SpacesRe, " ", Sub(SpecialRe, " ", SubI(QuantityRe, "", product_name))))

RECURSIVE FirstPatternFrom(_, _, _)
\* pattern i with its match m, or else the first pattern after it that is found
PatternMatch(ps, low, i, m) ==
  IF m.ok THEN [i |-> i, m |-> m] ELSE FirstPatternFrom(ps, low, i + 1)

FirstPatternFrom(ps, low, i) ==
  IF i > Len(ps) THEN [i |-> 0, m |-> NoMatch] ELSE PatternMatch(ps, low, i, Search(ps[i], low))

\* the first pattern of ps found in low, with its match; i = 0 if none
FirstPattern(ps, low) == FirstPatternFrom(ps, low, 1)

\* the multipack patterns of _is_multipack
IsMultipackPatterns ==
  << <<Plus(DigitSet), Star(SpaceSet), Lit("x"), Star(SpaceSet), Plus(DigitSet)>>,
     <<Plus(DigitSet), Star(SpaceSet), Lit("pack")>>,
     <<Plus(DigitSet), Star(SpaceSet), Lit("can")>>,
     <<Plus(DigitSet), Star(SpaceSet), Lit("bottle")>>,
     <<Plus(DigitSet), Star(SpaceSet), Lit("piece")>>,
     <<Plus(DigitSet), Star(SpaceSet), Lit("item")>> >>

\* _is_multipack
IsMultipack(product_name) ==
  LET low == Lower(product_name)
  IN \/ FirstPattern(IsMultipackPatterns, low).i > 0
     \/ Contains(low, "family pack")
     \/ Contains(low, "multipack")

\* the multipack patterns of _extract_quantity_and_pack_size
multipack_patterns ==
  << <<GOpen(1), Plus(DigitSet), GClose(1), Star(SpaceSet), Lit("x"), Star(SpaceSet),
       GOpen(2)>> \o Number \o <<GClose(2), Star(SpaceSet), GOpen(3), WeightUnits, GClose(3)>>,
     <<GOpen(1), Plus(DigitSet), GClose(1), Star(SpaceSet), Lit("pack")>>,
     <<GOpen(1), Plus(DigitSet), GClose(1), Star(SpaceSet), Lit("can")>>,
     <<GOpen(1), Plus(DigitSet), GClose(1), Star(SpaceSet), Lit("bottle")>>,
     <<GOpen(1), Plus(DigitSet), GClose(1), Star(SpaceSet), Lit("piece")>>,
     <<GOpen(1), Plus(DigitSet), GClose(1), Star(SpaceSet), Lit("item")>> >>

\* the single item patterns of _extract_quantity_and_pack_size
single_patterns ==
  << <<GOpen(1)>> \o Number \o <<GClose(1), Star(SpaceSet), GOpen(2), WeightUnits, GClose(2)>>,
     <<GOpen(1)>> \o Number \o <<GClose(1), Star(SpaceSet), Lit("pack")>>,
     <<GOpen(1)>> \o Number \o <<GClose(1), Star(SpaceSet), Lit("can")>>,
     <<GOpen(1)>> \o Number \o <<GClose(1), Star(SpaceSet), Lit("bottle")>> >>

\* the result for the multipack pattern f found: the unit quantity of "N x Q unit",
\* no quantity for the other wordings
MultipackQuantity(low, f) ==
  IF f.i = 1 /\ Group(low, f.m, 2) # ""
  THEN [has |-> TRUE, quantity |-> ParseFloat(Group(low, f.m, 2)),
        pack_size |-> ParseInt(Group(low, f.m, 1))]
  ELSE [has |-> FALSE, quantity |-> 0, pack_size |-> ParseInt(Group(low, f.m, 1))]

\* the result for the single item pattern g, if one is found
SingleQuantity(low, g) ==
  IF g.i > 0
  THEN [has |-> TRUE, quantity |-> ParseFloat(Group(low, g.m, 1)), pack_size |-> 1]
  ELSE [has |-> FALSE, quantity |-> 0, pack_size |-> 1]

\* multipack patterns first, then single item patterns
QuantityAndPackSize(low, f) ==
  IF f.i > 0 THEN MultipackQuantity(low, f)
  ELSE SingleQuantity(low, FirstPattern(single_patterns, low))

\* _extract_quantity_and_pack_size: quantity (has = FALSE: None) and pack size
ExtractQuantityAndPackSize(product_name) ==
  QuantityAndPackSize(Lower(product_name), FirstPattern(multipack_patterns, Lower(product_name)))

(***************************************************************************)
(* FixedTrolleyScraper: the similarity scorer                              *)
(***************************************************************************)
\* one unit of score: every len(intersection) / len(union) with a union of at most
\* 16 words, and every tenth and hundredth, is a whole number of 1/Scale
Scale == 100 * 720720

\* a decimal literal n/10 of the code
Tenths(n) == n * (Scale \div 10)

\* the term of _calculate_quantity_similarity for two results of
\* _extract_quantity_and_pack_size
QuantityTerm(e1, e2) ==
  IF ~e1.has \/ ~e2.has THEN 0
  ELSE IF e1.pack_size # e2.pack_size THEN -Tenths(5)
  ELSE IF e1.quantity = e2.quantity THEN Tenths(3)
  ELSE IF 10 * Abs(e1.quantity - e2.quantity) <= Max(e1.quantity, e2.quantity) THEN Tenths(2)
  ELSE IF 10 * Abs(e1.quantity - e2.quantity) <= 2 * Max(e1.quantity, e2.quantity) THEN Tenths(1)
  ELSE -Tenths(2)

\* _calculate_quantity_similarity
CalculateQuantitySimilarity(name1, name2) ==
  QuantityTerm(ExtractQuantityAndPackSize(name1), ExtractQuantityAndPackSize(name2))

\* the intersection of the two word sets, extended with every pair of different
\* words of which one is contained in the other
WordIntersection(words1, words2) ==
  (words1 \cap words2)
    \cup {w \in words1 : \E v \in words2 : w # v /\ (Contains(v, w) \/ Contains(w, v))}
    \cup {v \in words2 : \E w \in words1 : w # v /\ (Contains(v, w) \/ Contains(w, v))}

\* the Jaccard similarity of the cleaned product words
Jaccard(words1, words2) ==
  (Cardinality(WordIntersection(words1, words2)) * Scale) \div Cardinality(words1 \cup words2)

HasVariant(name_lower) ==
  Contains(name_lower, "reduced sugar") \/ Contains(name_lower, "reduced salt")

IsBakedBeans(name_lower) ==
  Contains(name_lower, "baked beans") \/ Contains(name_lower, "beanz")

\* the cross-category penalty tested with the phrase in the first name only
CategoryConflictOneWay(phrase, name1_lower, name2_lower) ==
  Contains(name1_lower, phrase) /\ IsBakedBeans(name2_lower)

\* the cross-category penalty of one phrase against baked beans / beanz
CategoryConflict(phrase, name1_lower, name2_lower) ==
  \/ Contains(name1_lower, phrase) /\ IsBakedBeans(name2_lower)
  \/ IsBakedBeans(name1_lower) /\ Contains(name2_lower, phrase)

\* family pack and multipack to multipack bonuses
PackBonus(fp1, fp2, mp1, mp2) ==
  (IF fp1 /\ fp2 THEN Tenths(5)
   ELSE IF (fp1 \/ fp2) /\ (mp1 \/ mp2) THEN Tenths(3) ELSE 0)
  + (IF mp1 /\ mp2 THEN Tenths(4) ELSE 0)

\* baked beans against beanz, and the same product type
ProductTypeBonus(bb1, bb2, bz1, bz2) ==
  (IF (bb1 /\ bz2) \/ (bz1 /\ bb2) THEN Tenths(2) ELSE 0)
  + (IF (bb1 /\ bb2) \/ (bz1 /\ bz2) THEN Tenths(6) ELSE 0)

\* the same variant, or two regular baked beans
VariantBonus(name1_lower, name2_lower) ==
  IF \/ Contains(name1_lower, "reduced sugar") /\ Contains(name2_lower, "reduced sugar")
     \/ Contains(name1_lower, "reduced salt") /\ Contains(name2_lower, "reduced salt")
  THEN Tenths(3)
  ELSE IF /\ ~HasVariant(name1_lower) /\ ~HasVariant(name2_lower)
          /\ Contains(name1_lower, "baked beans") /\ Contains(name2_lower, "baked beans")
       THEN Tenths(3) ELSE 0

\* cross-category penalties
CategoryPenalty(name1_lower, name2_lower) ==
  (IF CategoryConflict("chilli black beans", name1_lower, name2_lower) THEN Tenths(5) ELSE 0)
  + (IF CategoryConflict("cream of tomato soup", name1_lower, name2_lower) THEN Tenths(8) ELSE 0)
  + (IF CategoryConflict("curry chickpeas", name1_lower, name2_lower) THEN Tenths(9) ELSE 0)
  + (IF CategoryConflict("chickpeas", name1_lower, name2_lower) THEN Tenths(8) ELSE 0)

\* the bonuses and penalties the scorer adds to the Jaccard similarity before the
\* brand step
Adjustments(name1_lower, name2_lower, product1_clean, product2_clean, mp1, mp2) ==
  \* substring bonus
  (IF Contains(product2_clean, product1_clean) \/ Contains(product1_clean, product2_clean)
   THEN Tenths(2) ELSE 0)
  + PackBonus(Contains(name1_lower, "family pack"), Contains(name2_lower, "family pack"), mp1, mp2)
  + ProductTypeBonus(Contains(name1_lower, "baked beans"), Contains(name2_lower, "baked beans"),
                     Contains(name1_lower, "beanz"), Contains(name2_lower, "beanz"))
  + VariantBonus(name1_lower, name2_lower)
  - CategoryPenalty(name1_lower, name2_lower)
  \* variant mismatch penalty
  - (IF HasVariant(name1_lower) # HasVariant(name2_lower) THEN Tenths(6) ELSE 0)
  \* multipack against single penalty
  - (IF mp1 # mp2 THEN Tenths(5) ELSE 0)

\* BrandStep with the gate weakened to a penalty for two different brands
BrandStepPenalty(brand1, brand2, j) ==
  IF brand1 # "" /\ brand2 # ""
  THEN IF AreBrandsSimilar(brand1, brand2)
       THEN [gate |-> FALSE, j |-> j + Tenths(5)]
       ELSE [gate |-> FALSE, j |-> j - Tenths(5)]
  ELSE IF brand1 # "" \/ brand2 # ""
       THEN [gate |-> FALSE, j |-> (j * 3) \div 10]
       ELSE [gate |-> FALSE, j |-> j]

\* the brand step of the scorer: the gate for two different brands, the bonus for
\* similar ones, the discount when only one side has a brand
BrandStep(brand1, brand2, j) ==
  IF brand1 # "" /\ brand2 # ""
  THEN IF AreBrandsSimilar(brand1, brand2)
       THEN [gate |-> FALSE, j |-> j + Tenths(5)]
       ELSE [gate |-> TRUE, j |-> 0]
  ELSE IF brand1 # "" \/ brand2 # ""
       THEN [gate |-> FALSE, j |-> (j * 3) \div 10]
       ELSE [gate |-> FALSE, j |-> j]

\* a final return without the clamp
ClampNone(x) == x

\* max(0.0, min(1.0, x))
Clamp(x) == Max(0, Min(Scale, x))

\* the result of the scorer with the values the claims refer to: the two brands,
\* the path taken, the value before the clamp and the returned score
Scored(brand1, brand2, path, raw, score) ==
  [brand1 |-> brand1, brand2 |-> brand2, path |-> path, raw |-> raw, score |-> score]

\* the early return when a cleaned product is empty: v for similar brands, else 0.0
BrandOnly(brand1, brand2, v) ==
  IF brand1 # "" /\ brand2 # "" /\ AreBrandsSimilar(brand1, brand2)
  THEN Scored(brand1, brand2, "brand_only", v, v)
  ELSE Scored(brand1, brand2, "brand_only", 0, 0)

\* the return of the full path: the sum, clamped
Full(brand1, brand2, raw) == Scored(brand1, brand2, "full", raw, Clamp(raw))

\* the end of the scorer: the brand gate returns 0.0, otherwise the quantity term
\* is added and the sum is clamped
AfterBrandStep(brand1, brand2, bs, name1, name2) ==
  IF bs.gate THEN Scored(brand1, brand2, "gate", 0, 0)
  ELSE Full(brand1, brand2, bs.j + CalculateQuantitySimilarity(name1, name2))

\* the scorer from the word sets on
SimilarityOfWords(name1, name2, brand1, brand2, product1_clean, product2_clean, words1, words2) ==
  IF words1 = {} \/ words2 = {} THEN Scored(brand1, brand2, "brand_only", 0, 0)
  ELSE AfterBrandStep(brand1, brand2,
         BrandStep(brand1, brand2,
           Jaccard(words1, words2)
           + Adjustments(Lower(name1), Lower(name2), product1_clean, product2_clean,
                         IsMultipack(Lower(name1)), IsMultipack(Lower(name2)))),
         name1, name2)

\* the scorer from the cleaned products on
SimilarityOfProducts(name1, name2, brand1, brand2, product1_clean, product2_clean) ==
  IF product1_clean = "" /\ product2_clean = "" THEN BrandOnly(brand1, brand2, Tenths(8))
  ELSE IF product1_clean = "" \/ product2_clean = "" THEN BrandOnly(brand1, brand2, Tenths(6))
  ELSE SimilarityOfWords(name1, name2, brand1, brand2, product1_clean, product2_clean,
                         Range(Split(product1_clean)), Range(Split(product2_clean)))

\* the scorer from the two segmentations on
SimilarityOfSegments(name1, name2, s1, s2) ==
  SimilarityOfProducts(name1, name2, s1.brand, s2.brand,
                       CleanProductNameForComparison(s1.product),
                       CleanProductNameForComparison(s2.product))

\* _calculate_similarity_improved
Similarity(name1, name2) ==
  SimilarityOfSegments(name1, name2, ExtractBrandAndProduct(name1), ExtractBrandAndProduct(name2))

\* the float the scorer returns, in units of 1/Scale
Score(name1, name2) == Similarity(name1, name2).score

\* \b(\d+\.?\d*)\s*(g|kg|ml|l|oz|lb|pack|packs|pieces?|items?)\b
ExtractQuantityRe ==
  <<Bnd, GOpen(1)>> \o Number \o <<GClose(1), Star(SpaceSet), GOpen(2), QuantityUnits, GClose(2), Bnd>>

\* _extract_quantity: the number and the unit of the first quantity, "" if none
ExtractQuantity(product_name) ==
  LET m == Search(ExtractQuantityRe, Lower(product_name))
  IN IF m.ok THEN Group(product_name, m, 1) \o Group(product_name, m, 2) ELSE ""

\* _extract_brand
ExtractBrand(product_name) == ExtractBrandAndProduct(product_name).brand

\* the confidence score is a whole number of 1/(ConfidenceUnit * Scale): its terms
\* are 0.6 * similarity_score, 0.2, 0.15 and 0.05
ConfidenceUnit == 20

\* bonus for exact brand match
BrandConfidence(original_brand, found_brand) ==
  IF original_brand # "" /\ found_brand # "" /\ AreBrandsSimilar(original_brand, found_brand)
  THEN 3 * Scale ELSE 0

\* bonus for quantity match
QuantityConfidence(original_quantity, found_quantity) ==
  IF original_quantity # "" /\ found_quantity # "" /\ original_quantity = found_quantity
  THEN Scale ELSE 0

\* _calculate_confidence_score, in units of 1/(ConfidenceUnit * Scale); has_prices
\* is the truth value of retailer_prices
CalculateConfidenceScore(similarity_score, product_name, original_product_name, has_prices) ==
  Min(ConfidenceUnit * Scale,
      similarity_score * 12
      + (IF has_prices THEN 4 * Scale ELSE 0)
      + BrandConfidence(ExtractBrand(original_product_name), ExtractBrand(product_name))
      + QuantityConfidence(ExtractQuantity(original_product_name), ExtractQuantity(product_name)))

(***************************************************************************)
(* fuzzywuzzy, as EnhancedProductMatcher calls it: fuzz.ratio and          *)
(* fuzz.token_set_ratio over difflib.SequenceMatcher                       *)
(***************************************************************************)
\* the characters in code point order
AsciiOrder == " '-." \o DigitS \o UpperS \o "_" \o LowerS

Ord(c) == Find(AsciiOrder, c)

RECURSIVE StrLess(_, _)
\* a < b on str
StrLess(a, b) ==
  IF b = "" THEN FALSE
  ELSE IF a = "" THEN TRUE
  ELSE IF Head(a) = Head(b) THEN StrLess(Tail(a), Tail(b))
  ELSE Ord(Head(a)) < Ord(Head(b))

RECURSIVE Sorted(_)
\* sorted(S) for a set of strings
Sorted(S) ==
  IF S = {} THEN <<>>
  ELSE LET least == CHOOSE w \in S : \A v \in S \ {w} : StrLess(w, v)
       IN <<least>> \o Sorted(S \ {least})

\* the length of the common run of a from i and b from j, within a[..ahi] and b[..bhi]
RunAt(a, b, i, j, ahi, bhi) ==
  IF At(a, i) # At(b, j) THEN 0
  ELSE LET cap == Min(ahi - i, bhi - j) + 1
       IN CHOOSE k \in 1..cap :
            /\ SubSeq(a, i, i + k - 1) = SubSeq(b, j, j + k - 1)
            /\ (k = cap \/ At(a, i + k) # At(b, j + k))

\* the common runs of a[alo..ahi] and b[blo..bhi] by their start in a and in b
Blocks(a, b, alo, ahi, blo, bhi) ==
  {<<i, j, RunAt(a, b, i, j, ahi, bhi)>> : i \in alo..ahi, j \in blo..bhi}

\* the size of the longest block
LongestSize(blocks) == CHOOSE k \in {m[3] : m \in blocks} : \A m \in blocks : m[3] <= k

\* the earliest start in a of the given blocks
EarliestInA(longest) == CHOOSE x \in {m[1] : m \in longest} : \A m \in longest : x <= m[1]

\* of the given blocks that start at i in a, the one that starts earliest in b
EarliestBlock(longest, i, size) ==
  <<i, CHOOSE y \in {m[2] : m \in {n \in longest : n[1] = i}} :
         \A m \in {n \in longest : n[1] = i} : y <= m[2], size>>

\* of the blocks of the given size, the one that starts earliest in a, then in b
LongestBlock(blocks, size, alo, blo) ==
  IF size = 0 THEN <<alo, blo, 0>>
  ELSE EarliestBlock({m \in blocks : m[3] = size},
                     EarliestInA({m \in blocks : m[3] = size}), size)

\* SequenceMatcher.find_longest_match: the longest block, of those the one that starts
\* earliest in a, of those the one that starts earliest in b
FindLongestMatch(a, b, alo, ahi, blo, bhi) ==
  LongestBlock(Blocks(a, b, alo, ahi, blo, bhi),
               LongestSize(Blocks(a, b, alo, ahi, blo, bhi)), alo, blo)

RECURSIVE MatchingChars(_, _, _, _, _, _)
\* the longest block m, and the matching blocks to its left and to its right
AroundBlock(a, b, alo, ahi, blo, bhi, m) ==
  IF m[3] = 0 THEN 0
  ELSE m[3] + MatchingChars(a, b, alo, m[1] - 1, blo, m[2] - 1)
            + MatchingChars(a, b, m[1] + m[3], ahi, m[2] + m[3], bhi)

\* the total size of SequenceMatcher.get_matching_blocks on a[alo..ahi], b[blo..bhi]
MatchingChars(a, b, alo, ahi, blo, bhi) ==
  IF alo > ahi \/ blo > bhi THEN 0
  ELSE AroundBlock(a, b, alo, ahi, blo, bhi, FindLongestMatch(a, b, alo, ahi, blo, bhi))

\* int(round(100 * num / den)): round half to even
RoundPercent(num, den) ==
  LET q == (100 * num) \div den
      r == (100 * num) % den
  IN IF 2 * r > den \/ (2 * r = den /\ q % 2 = 1) THEN q + 1 ELSE q

\* fuzz.ratio(s1, s2)
ratio(s1, s2) ==
  IF s1 = s2 THEN 100
  ELSE IF s1 = "" \/ s2 = "" THEN 0
  ELSE RoundPercent(2 * MatchingChars(s1, s2, 1, Len(s1), 1, Len(s2)), Len(s1) + Len(s2))

\* \W
NonWordRe == <<NotCls(WordSet, 1, 1)>>

\* utils.full_process
full_process(s) == Strip(Lower(Sub(NonWordRe, " ", s)))

\* the best of the three ratios between the sorted intersection and the two
\* combined strings
BestRatio(sorted_sect, combined_1to2, combined_2to1) ==
  Max(ratio(sorted_sect, combined_1to2),
      Max(ratio(sorted_sect, combined_2to1), ratio(combined_1to2, combined_2to1)))

\* the combined strings: the sorted intersection followed by each sorted difference
CombinedRatio(sorted_sect, sorted_1to2, sorted_2to1) ==
  BestRatio(sorted_sect, Strip(sorted_sect \o " " \o sorted_1to2),
            Strip(sorted_sect \o " " \o sorted_2to1))

\* the token sets: intersection and differences, each sorted and joined
TokenSetRatio(tokens1, tokens2) ==
  CombinedRatio(Join(Sorted(tokens1 \cap tokens2)), Join(Sorted(tokens1 \ tokens2)),
                Join(Sorted(tokens2 \ tokens1)))

\* the ratio of two processed strings: 0 when either is empty
ProcessedRatio(p1, p2) ==
  IF p1 = "" \/ p2 = "" THEN 0 ELSE TokenSetRatio(Range(Split(p1)), Range(Split(p2)))

\* fuzz.token_set_ratio(s1, s2)
token_set_ratio(s1, s2) == ProcessedRatio(full_process(s1), full_process(s2))

(***************************************************************************)
(* EnhancedProductMatcher                                                  *)
(***************************************************************************)
\* \bword\b
Word(w) == <<Bnd, Lit(w), Bnd>>

\* \b\d+\s*[x]\b   (the multiplication sign of the class is outside the alphabet)
TimesRe == <<Bnd, Plus(DigitSet), Star(SpaceSet), Lit("x"), Bnd>>

\* \b\d+\s*for\s*\d+\.?\d*\b   (the optional pound sign is outside the alphabet)
MultiBuyRe == <<Bnd, Plus(DigitSet), Star(SpaceSet), Lit("for"), Star(SpaceSet)>> \o Number \o <<Bnd>>

remove_phrases ==
  <<TimesRe, Word("offer"), Word("deal"), Word("special"),
    Word("clubcard"), Word("price"), Word("was"), Word("now"),
    MultiBuyRe,
    Word("save"), Word("reduced"), Word("clearance"),
    Word("new"), Word("improved"), Word("formula")>>

promotional_phrases ==
  <<Word("clubcard"), Word("price"), Word("was"), Word("now"),
    Word("offer"), Word("deal"), Word("special"), Word("save"),
    Word("reduced"), Word("clearance"), Word("multibuy"),
    MultiBuyRe, TimesRe>>

RECURSIVE RemoveAll(_, _, _)
\* for phrase in ps[i..]: text = re.sub(phrase, '', text)
RemoveAll(ps, i, text) ==
  IF i > Len(ps) \/ text = "" THEN text ELSE RemoveAll(ps, i + 1, Sub(ps[i], "", text))

\* [^\w\s]
PunctuationRe == <<NotCls(WordSet \cup SpaceSet, 1, 1)>>

\* clean_product_text
clean_product_text(text) ==
  IF text = "" THEN ""
  ELSE Strip(Sub(SpacesRe, " ",
                 Sub(PunctuationRe, " ", RemoveAll(remove_phrases, 1, Lower(text)))))

\* is_promotional_price
is_promotional_price(text) ==
  text # "" /\ FirstPattern(promotional_phrases, Lower(text)).i > 0

\* (\d+(?:\.\d+)?)
Decimal(g) == <<GOpen(g), Plus(DigitSet), OptSeq(<<One({"."}), Plus(DigitSet)>>), GClose(g)>>

\* (\d+)
Whole(g) == <<GOpen(g), Plus(DigitSet), GClose(g)>>

\* the units of the weight patterns, in the order the patterns are tried
weight_units == <<"g", "kg", "ml", "l", "pc", "pack", "x">>

\* the multipack patterns of extract_weight_volume: (\d+)\s*[x]\s*(\d+(?:\.\d+)?)\s*(unit)
weight_multipack_patterns ==
  [u \in 1..4 |-> Whole(1) \o <<Star(SpaceSet), Lit("x"), Star(SpaceSet)>> \o Decimal(2)
                    \o <<Star(SpaceSet), GOpen(3), Lit(weight_units[u]), GClose(3)>>]

weight_patterns ==
  [u \in 1..7 |-> (IF u <= 4 THEN Decimal(1) ELSE Whole(1))
                    \o <<Star(SpaceSet), Lit(weight_units[u])>>]

NoWeight == [has |-> FALSE, value |-> 0, unit |-> ""]

\* the weight of the multipack pattern f found: count times unit weight
MultipackWeight(text_lower, f) ==
  [has |-> TRUE,
   value |-> ParseInt(Group(text_lower, f.m, 1)) * ParseFloat(Group(text_lower, f.m, 2)),
   unit |-> weight_units[f.i]]

\* the weight of the weight pattern g, if one is found
SingleWeight(text_lower, g) ==
  IF g.i > 0
  THEN [has |-> TRUE, value |-> ParseFloat(Group(text_lower, g.m, 1)), unit |-> weight_units[g.i]]
  ELSE NoWeight

\* multipack patterns first, then the weight patterns
WeightOf(text_lower, f) ==
  IF f.i > 0 THEN MultipackWeight(text_lower, f)
  ELSE SingleWeight(text_lower, FirstPattern(weight_patterns, text_lower))

\* extract_weight_volume: the value in units of 1/QScale (has = FALSE: None)
extract_weight_volume(text) ==
  IF text = "" THEN NoWeight
  ELSE WeightOf(Lower(text), FirstPattern(weight_multipack_patterns, Lower(text)))

\* ^(brand|...)\b, the three brand patterns in the order they are tried
brand_patterns ==
  << <<Bos, GOpen(1), Alt(<<"heinz", "branston", "tesco", "sainsbury", "asda", "morrisons",
                            "ocado", "co-op", "aldi", "lidl", "waitrose">>), GClose(1), Bnd>>,
     <<Bos, GOpen(1), Alt(<<"nestle", "kellogg", "unilever", "kraft", "mars", "cadbury",
                            "walkers", "coca-cola", "pepsi">>), GClose(1), Bnd>>,
     <<Bos, GOpen(1), Alt(<<"dove", "lynx", "axe", "rexona", "sure", "nivea", "garnier",
                            "loreal", "maybelline">>), GClose(1), Bnd>> >>

\* the split at the brand pattern f, if one is found
BrandPatternSplit(product_name_lower, f) ==
  IF f.i > 0
  THEN [brand |-> Group(product_name_lower, f.m, 1),
        product |-> Strip(Sub(brand_patterns[f.i], "", product_name_lower))]
  ELSE [brand |-> "", product |-> product_name_lower]

\* extract_brand_and_product: brand = "" stands for None
extract_brand_and_product(product_name) ==
  IF product_name = "" THEN [brand |-> "", product |-> ""]
  ELSE BrandPatternSplit(Lower(product_name), FirstPattern(brand_patterns, Lower(product_name)))

matcher_brand_variations ==
  <<{"heinz"}, {"branston"}, {"tesco"}, {"sainsbury", "sainsburys"}, {"asda"},
    {"morrisons"}, {"ocado"}>>

\* the similarity of two extracted brands, in hundredths
BrandSimilarity(brand1, brand2) ==
  IF brand1 = "" \/ brand2 = "" THEN 0
  ELSE IF Lower(brand1) = Lower(brand2) THEN 100
  ELSE IF \E i \in DOMAIN matcher_brand_variations :
            /\ Lower(brand1) \in matcher_brand_variations[i]
            /\ Lower(brand2) \in matcher_brand_variations[i]
       THEN 100
       ELSE ratio(Lower(brand1), Lower(brand2))

\* check_brand_similarity, in hundredths
check_brand_similarity(name1, name2) ==
  BrandSimilarity(extract_brand_and_product(name1).brand, extract_brand_and_product(name2).brand)

\* _convert_to_kg, in units of 1/(1000 * QScale); has = FALSE: None
convert_to_kg(value, unit) ==
  IF unit \in {"g", "ml"} THEN [has |-> TRUE, value |-> value]
  ELSE IF unit \in {"kg", "l"} THEN [has |-> TRUE, value |-> value * 1000]
  ELSE [has |-> FALSE, value |-> 0]

\* the similarity of two weights in kg units, in hundredths
KgSimilarity(weight1_kg, weight2_kg) ==
  IF ~weight1_kg.has \/ ~weight2_kg.has THEN 0
  ELSE IF weight1_kg.value = weight2_kg.value THEN 100
  ELSE IF 10 * Abs(weight1_kg.value - weight2_kg.value)
            <= Max(weight1_kg.value, weight2_kg.value)
       THEN 80
       ELSE 0

\* the similarity of two extracted weights, in hundredths
WeightSimilarity(w1, w2) ==
  IF ~w1.has \/ w1.value = 0 \/ ~w2.has \/ w2.value = 0 THEN 0
  ELSE KgSimilarity(convert_to_kg(w1.value, w1.unit), convert_to_kg(w2.value, w2.unit))

\* check_weight_similarity, in hundredths
check_weight_similarity(name1, name2) ==
  WeightSimilarity(extract_weight_volume(name1), extract_weight_volume(name2))

flavor_indicators ==
  <<"tomato", "chicken", "beef", "vegetable", "mushroom", "cream", "cheese",
    "original", "classic", "traditional", "organic", "reduced", "light",
    "sweet", "sour", "spicy", "mild", "hot", "garlic", "herb", "basil",
    "oregano", "thyme", "rosemary", "lemon", "lime", "orange", "berry",
    "strawberry", "chocolate", "vanilla", "caramel", "coffee", "mint">>

\* the flavor the loop over flavor_indicators leaves: the last one found, "" if none
LastFlavor(product_lower) ==
  LET found == {i \in DOMAIN flavor_indicators : Contains(product_lower, flavor_indicators[i])}
  IN IF found = {} THEN ""
     ELSE flavor_indicators[CHOOSE i \in found : \A j \in found : j <= i]

NotSameBrandWeight == [is |-> FALSE, confidence |-> 0]

\* the end of check_same_brand_weight_match: different flavors, or different
\* products when a flavor is missing or shared
FlavorOrProduct(flavor1, flavor2, product1, product2) ==
  IF flavor1 # "" /\ flavor2 # "" /\ flavor1 # flavor2
  THEN [is |-> TRUE, confidence |-> 85]
  ELSE IF product1 # product2
       THEN [is |-> TRUE, confidence |-> 75]
       ELSE NotSameBrandWeight

\* check_same_brand_weight_match from the two weights in kg units on
SameKg(weight1_kg, weight2_kg, product1, product2, e1, e2) ==
  IF ~weight1_kg.has \/ ~weight2_kg.has THEN NotSameBrandWeight
  ELSE IF weight1_kg.value # weight2_kg.value THEN NotSameBrandWeight
  ELSE FlavorOrProduct(LastFlavor(Lower(product1)), LastFlavor(Lower(product2)),
                       e1.product, e2.product)

\* check_same_brand_weight_match from the extracted brands and weights on
SameBrandWeight(product1, product2, e1, e2, w1, w2) ==
  IF e1.brand = "" \/ e2.brand = "" THEN NotSameBrandWeight
  ELSE IF check_brand_similarity(product1, product2) < 80 THEN NotSameBrandWeight
  ELSE IF ~w1.has \/ ~w2.has THEN NotSameBrandWeight
  ELSE SameKg(convert_to_kg(w1.value, w1.unit), convert_to_kg(w2.value, w2.unit),
              product1, product2, e1, e2)

\* check_same_brand_weight_match, the confidence in hundredths
check_same_brand_weight_match(product1, product2) ==
  SameBrandWeight(product1, product2,
                  extract_brand_and_product(product1), extract_brand_and_product(product2),
                  extract_weight_volume(product1), extract_weight_volume(product2))

\* the least index of a non-empty set of indices
First(S) == CHOOSE i \in S : \A j \in S : i <= j

\* the items the loops do not skip: those with a non-empty name
Named(scraped_items) == {i \in DOMAIN scraped_items : scraped_items[i] # ""}

\* a first pass that leaves promotional items to the later passes
RegularExactMatches(product_name_clean, scraped_items) ==
  {i \in Named(scraped_items) :
     /\ product_name_clean = clean_product_text(scraped_items[i])
     /\ ~is_promotional_price(scraped_items[i])}

\* first pass: the items whose cleaned name is the cleaned product name
ExactMatches(product_name_clean, scraped_items) ==
  {i \in Named(scraped_items) : product_name_clean = clean_product_text(scraped_items[i])}

\* second pass: the items of the same brand and weight
SameBrandWeightMatches(product_name, scraped_items) ==
  {i \in Named(scraped_items) : check_same_brand_weight_match(product_name, scraped_items[i]).is}

\* the head of a list that is not sorted
FirstListed(S, scraped_items) == First(S)

\* the head of a list after the stable sort on the promotional flag
FirstNonPromotional(S, scraped_items) ==
  LET regular == {i \in S : ~is_promotional_price(scraped_items[i])}
  IN IF regular # {} THEN First(regular) ELSE First(S)

\* the sort key of the second pass: (promotional flag, -confidence)
SortKey(product_name, item_name) ==
  <<IF is_promotional_price(item_name) THEN 1 ELSE 0,
    -check_same_brand_weight_match(product_name, item_name).confidence>>

\* the order of two sort keys
KeyBefore(k, l) == k[1] < l[1] \/ (k[1] = l[1] /\ k[2] < l[2])

\* the head of a list after the stable sort on (promotional flag, -confidence)
FirstByPromotionAndConfidence(S, product_name, scraped_items) ==
  First({i \in S : \A j \in S : ~KeyBefore(SortKey(product_name, scraped_items[j]),
                                           SortKey(product_name, scraped_items[i]))})

\* the promotional penalty, in thousandths
promotional_penalty == 300

\* the combined score without the promotional adjustment
TotalScoreUnadjusted(product_name, product_name_clean, item_name) ==
  token_set_ratio(product_name_clean, clean_product_text(item_name)) * 6
  + check_brand_similarity(product_name, item_name) * 2
  + check_weight_similarity(product_name, item_name) * 2

\* total_score of the third pass, in thousandths
TotalScore(product_name, product_name_clean, item_name) ==
  token_set_ratio(product_name_clean, clean_product_text(item_name)) * 6
  + check_brand_similarity(product_name, item_name) * 2
  + check_weight_similarity(product_name, item_name) * 2
  + (IF is_promotional_price(item_name) THEN -promotional_penalty ELSE 0)

RECURSIVE FuzzyPass(_, _, _, _, _, _, _)
\* third pass: item i with its total_score, then the loop from item i + 1 on
FuzzyStep(product_name, product_name_clean, scraped_items, threshold_, i, best_match, highest_score, total_score) ==
  IF total_score > highest_score /\ total_score > threshold_
  THEN FuzzyPass(product_name, product_name_clean, scraped_items, threshold_, i + 1,
                 i, total_score)
  ELSE FuzzyPass(product_name, product_name_clean, scraped_items, threshold_, i + 1,
                 best_match, highest_score)

\* third pass: the loop from item i on, with the best item and score so far
FuzzyPass(product_name, product_name_clean, scraped_items, threshold_, i, best_match, highest_score) ==
  IF i > Len(scraped_items) THEN [best_match |-> best_match, highest_score |-> highest_score]
  ELSE IF scraped_items[i] = ""
       THEN FuzzyPass(product_name, product_name_clean, scraped_items, threshold_, i + 1,
                      best_match, highest_score)
       ELSE FuzzyStep(product_name, product_name_clean, scraped_items, threshold_, i,
                      best_match, highest_score,
                      TotalScore(product_name, product_name_clean, scraped_items[i]))

NoOut == [match_type |-> "none"]

\* _create_product_match for an item that carries a name only; the confidence in
\* thousandths, index the place of the item in the list
create_product_match(scraped_items, i, confidence, match_type) ==
  [match_type |-> match_type,
   name |-> scraped_items[i],
   index |-> i,
   confidence |-> confidence,
   weight |-> extract_weight_volume(scraped_items[i]),
   validation_issues |-> <<"No price found">>]

\* the return of the first pass
ExactResult(scraped_items, exact_matches) ==
  create_product_match(scraped_items, FirstNonPromotional(exact_matches, scraped_items),
                       1000, "exact")

\* the return of the second pass for the head of its sorted list
SameBrandWeightResult(product_name, scraped_items, best) ==
  create_product_match(scraped_items, best,
    10 * check_same_brand_weight_match(product_name, scraped_items[best]).confidence,
    "same_brand_weight")

\* the return of the third pass
FuzzyResult(scraped_items, f) ==
  create_product_match(scraped_items, f.best_match, f.highest_score, "fuzzy")

\* a selector that asks the fuzzy pass first and the two other passes after it
FuzzyFirstOrder(product_name, scraped_items, exact_matches, same_brand_weight_matches, f) ==
  IF f.best_match # 0 THEN FuzzyResult(scraped_items, f)
  ELSE IF exact_matches # {} THEN ExactResult(scraped_items, exact_matches)
  ELSE IF same_brand_weight_matches # {}
  THEN SameBrandWeightResult(product_name, scraped_items,
         FirstByPromotionAndConfidence(same_brand_weight_matches, product_name, scraped_items))
  ELSE NoOut

\* the selector from the results of the three passes on: exact, then same brand
\* and weight, then fuzzy
TierOrder(product_name, scraped_items, exact_matches, same_brand_weight_matches, f) ==
  IF exact_matches # {} THEN ExactResult(scraped_items, exact_matches)
  ELSE IF same_brand_weight_matches # {}
  THEN SameBrandWeightResult(product_name, scraped_items,
         FirstByPromotionAndConfidence(same_brand_weight_matches, product_name, scraped_items))
  ELSE IF f.best_match # 0 THEN FuzzyResult(scraped_items, f)
  ELSE NoOut

\* the three passes for a cleaned product name
MatchClean(product_name, product_name_clean, scraped_items, threshold_) ==
  TierOrder(product_name, scraped_items,
            ExactMatches(product_name_clean, scraped_items),
            SameBrandWeightMatches(product_name, scraped_items),
            FuzzyPass(product_name, product_name_clean, scraped_items, threshold_, 1, 0, 0))

\* enhanced_product_match
enhanced_product_match(product_name, scraped_items, threshold_) ==
  IF scraped_items = <<>> THEN NoOut
  ELSE MatchClean(product_name, clean_product_text(product_name), scraped_items, threshold_)

(***************************************************************************)
(* Inputs of the scorer: product names composed of a brand, a product, a   *)
(* variant marker and a pack wording                                       *)
(***************************************************************************)
\* the largest pack count N of the "N x Qu" and "N pack" wordings
MaxPack == 6

Brands == {"", "Heinz", "Branston", "Alfez", "Al'Fez"}
Products == {"", "Baked Beans", "Beanz", "Cream of Tomato Soup"}
VariantMarker == "Reduced Salt and Sugar"
\* the variant marker is combined with one product only, to keep the universe small
VariantsOf(p) == IF p = "Baked Beans" THEN {"", VariantMarker} ELSE {""}
Qu == "415g"
PackCounts == {MaxPack - 2, MaxPack}
Digit(n) == At(DigitS, n + 1)
Multipack(n) == Digit(n) \o " x " \o Qu
PackWordings ==
  {"", Qu, "Family Pack", Digit(MaxPack) \o " pack"} \cup {Multipack(n) : n \in PackCounts}

\* the parts joined by single spaces, empty parts left out
Compose(b, p, v, k) == Join(SelectSeq(<<b, p, v, k>>, LAMBDA w : w # ""))

Candidates ==
  UNION {{Compose(b, p, v, k) : v \in VariantsOf(p)} :
           b \in Brands, p \in Products, k \in PackWordings} \ {""}

Queries ==
  {Compose(b, p, "", k) : b \in Brands \ {"Alfez"}, p \in Products,
                          k \in {Qu, Multipack(MaxPack)}}


Init ==
  /\ op = "init"
  /\ query \in Queries
  /\ \E c \in Candidates : cands = <<c>>
  /\ threshold = 0
  /\ out = NoOut
  /\ NoCache /\ NoBulk

\* score(query, candidate): _calculate_similarity_improved
ScoreStep ==
  /\ op = "init"
  /\ op' = "score"
  /\ out' = Similarity(query, cands[1])
  /\ UNCHANGED <<query, cands, threshold, cache_dir, now, bulk>>

\* the quantity / pack term alone: _calculate_quantity_similarity
QuantityStep ==
  /\ op = "init"
  /\ op' = "quantity"
  /\ out' = [path |-> "quantity",
             e1 |-> ExtractQuantityAndPackSize(query),
             e2 |-> ExtractQuantityAndPackSize(cands[1]),
             bonus |-> CalculateQuantitySimilarity(query, cands[1])]
  /\ UNCHANGED <<query, cands, threshold, cache_dir, now, bulk>>

Next == ScoreStep \/ QuantityStep

Spec == Init /\ [][Next]_vars

(***************************************************************************)
(* Inputs of the selector: a query, a list of scraped listings (each an    *)
(* item that carries a name) and a threshold in thousandths                *)
(***************************************************************************)
\* the longest list of scraped listings
MaxCands == 2

\* the default threshold of enhanced_product_match
DefaultThreshold == 700

\* the threshold the workflows pass
WorkflowThreshold == 500

Thresholds == {WorkflowThreshold, DefaultThreshold}

SelQueries ==
  {Compose("Heinz", "Baked Beans", "", Qu),
   Compose("Heinz", "Baked Beans", "", Multipack(MaxPack)),
   Compose("Heinz", "Tomato Soup", "", Qu)}

Listings ==
  {"",
   "HEINZ Baked Beans, " \o Qu,
   Compose("Heinz", "Baked Beans", "", Qu \o " Clubcard Price"),
   Compose("Heinz", "Baked Beans", "", Multipack(MaxPack)),
   Compose("Heinz", "Baked Beans", VariantMarker, Multipack(MaxPack)),
   Compose("Heinz", "Cream of Tomato Soup", "", Qu),
   Compose("Tesco", "Baked Beans", "", Qu)}

ListsUpTo(S, n) == UNION {[1..k -> S] : k \in 0..n}

InitSelect ==
  /\ op = "init"
  /\ query \in SelQueries
  /\ cands \in ListsUpTo(Listings, MaxCands)
  /\ threshold \in Thresholds
  /\ out = NoOut
  /\ NoCache /\ NoBulk

\* one call of enhanced_product_match(query, cands, threshold)
SelectStep ==
  /\ op = "init"
  /\ op' = "select"
  /\ out' = enhanced_product_match(query, cands, threshold)
  /\ UNCHANGED <<query, cands, threshold, cache_dir, now, bulk>>

NextSelect == SelectStep

SpecSelect == InitSelect /\ [][NextSelect]_vars

(***************************************************************************)
(* Properties of the scorer                                                *)
(***************************************************************************)
BrandOf(name) == ExtractBrandAndProduct(name).brand

\* both names yield a brand and the two brands are not judged similar
DifferentBrands(name1, name2) ==
  /\ BrandOf(name1) # ""
  /\ BrandOf(name2) # ""
  /\ ~AreBrandsSimilar(BrandOf(name1), BrandOf(name2))

\* C1: whenever both names yield a brand and the two brands are not judged similar,
\* the score is exactly 0, on the brand-only early returns as well as on the full path
C1_BrandGate ==
  (op = "score" /\ DifferentBrands(query, cands[1])) => out.score = 0

\* C1 witness: two names that differ in the brand only, so that everything but the
\* gate speaks for a match, have been scored
C1_Witness ==
  /\ op = "score"
  /\ DifferentBrands(query, cands[1])
  /\ out.path = "gate"
  /\ \E p \in Products \ {""}, k \in PackWordings \ {""} :
       /\ query = Compose("Heinz", p, "", k)
       /\ cands[1] = Compose("Branston", p, "", k)

\* the candidate is the query with the variant marker added
IsVariantOf(c, q) ==
  \E b \in Brands \ {""}, k \in PackWordings :
    /\ q = Compose(b, "Baked Beans", "", k)
    /\ c = Compose(b, "Baked Beans", VariantMarker, k)

\* C3: a candidate that differs from the query by a variant marker only scores
\* strictly lower than the regular listing identical to the query
C3_VariantScoresLower ==
  (op = "score" /\ IsVariantOf(cands[1], query)) => out.score < Score(query, query)

\* the query is the multipack "B P N x Qu" and the candidate the single unit "B P Qu"
IsSingleOf(c, q) ==
  \E b \in Brands \ {""}, p \in Products \ {""}, n \in PackCounts :
    /\ q = Compose(b, p, "", Multipack(n))
    /\ c = Compose(b, p, "", Qu)

\* C4: for a multipack query the single-unit candidate of the same brand and product
\* scores strictly lower than the multipack candidate of the same pack size
C4_SingleBelowMultipack ==
  (op = "score" /\ IsSingleOf(cands[1], query)) => out.score < Score(query, query)

\* C5: whenever the two extracted pack sizes differ, the quantity term is exactly -0.5
C5_PackMismatchTerm ==
  (op = "quantity" /\ out.e1.pack_size # out.e2.pack_size) => out.bonus = -Tenths(5)

\* one name is a cream of tomato soup and the other a baked beans / beanz product
SoupAgainstBeans(name1, name2) ==
  LET l1 == Lower(name1)
      l2 == Lower(name2)
  IN \/ Contains(l1, "cream of tomato soup") /\ IsBakedBeans(l2)
     \/ IsBakedBeans(l1) /\ Contains(l2, "cream of tomato soup")

\* C6: two names of the same brand, one a cream of tomato soup and the other a baked
\* beans / beanz product, score below 0.5 whatever else they share
C6_CategoryConflictBelowHalf ==
  (/\ op = "score"
   /\ BrandOf(query) # ""
   /\ BrandOf(query) = BrandOf(cands[1])
   /\ SoupAgainstBeans(query, cands[1])) => out.score < Tenths(5)

(***************************************************************************)
(* Properties of the selector                                              *)
(***************************************************************************)
\* the listings of the list that are exact matches of the query
ExactOfQuery ==
  {i \in DOMAIN cands :
     cands[i] # "" /\ clean_product_text(cands[i]) = clean_product_text(query)}

\* C2: a single candidate with a non-empty name whose normalized name equals the
\* normalized query is returned as 'exact' with confidence exactly 1.0, at every threshold
C2_ExactIdempotence ==
  (op = "select" /\ Len(cands) = 1 /\ ExactOfQuery = {1})
    => (/\ out.match_type = "exact"
        /\ out.name = cands[1]
        /\ out.confidence = 1000)

\* C2 witness: the single candidate differs from the query as raw text, carries a
\* promotional marker, and has been returned as the exact match
C2_Witness ==
  /\ op = "select"
  /\ Len(cands) = 1
  /\ ExactOfQuery = {1}
  /\ cands[1] # query
  /\ is_promotional_price(cands[1])
  /\ out.match_type = "exact"

\* the brands the matcher recognizes in the two names differ and are not aliases
DifferentRecognizedBrands(name1, name2) ==
  /\ extract_brand_and_product(name1).brand # ""
  /\ extract_brand_and_product(name2).brand # ""
  /\ check_brand_similarity(name1, name2) < 100

\* C7: whatever the tier, and at both thresholds, the selector never returns a
\* candidate whose recognized brand differs from the query's and is no alias of it
C7_SelectorBrandGate ==
  (op = "select" /\ out.match_type # "none") => ~DifferentRecognizedBrands(query, out.name)

\* C8: when exactly two listings normalize to the query's normalized name and exactly
\* one of them is promotional, the other one is returned as 'exact', whichever is first
C8_PromotionalDeprioritized ==
  op = "select" =>
    \A i, j \in DOMAIN cands :
      (/\ ExactOfQuery = {i, j}
       /\ is_promotional_price(cands[i])
       /\ ~is_promotional_price(cands[j]))
        => (out.match_type = "exact" /\ out.index = j /\ out.name = cands[j])

\* C8 witness: the promotional listing comes first and the regular one, second in the
\* list, has been returned
C8_Witness ==
  /\ op = "select"
  /\ Len(cands) = 2
  /\ ExactOfQuery = {1, 2}
  /\ Contains(cands[1], "Clubcard Price")
  /\ is_promotional_price(cands[1])
  /\ ~is_promotional_price(cands[2])
  /\ out.match_type = "exact"
  /\ out.index = 2

\* the listings that qualify for the fuzzy tier at the threshold of the call
FuzzyOfQuery ==
  {i \in Named(cands) :
     LET total_score == TotalScore(query, clean_product_text(query), cands[i])
     IN total_score > threshold /\ total_score > 0}

\* C9: the answer comes from the first of the tiers exact, same brand and weight,
\* fuzzy that has a qualifying listing, and there is none when no tier has one
C9_TierOrder ==
  op = "select" =>
    LET same == SameBrandWeightMatches(query, cands)
    IN /\ (ExactOfQuery # {}) <=> (out.match_type = "exact")
       /\ (ExactOfQuery = {} /\ same # {}) <=> (out.match_type = "same_brand_weight")
       /\ (ExactOfQuery = {} /\ same = {} /\ FuzzyOfQuery # {}) <=> (out.match_type = "fuzzy")
       /\ (ExactOfQuery = {} /\ same = {} /\ FuzzyOfQuery = {}) <=> (out = NoOut)
       /\ cands = <<>> => out = NoOut

\* C9 witness: the first listing qualifies for the fuzzy tier only, the second one is
\* an exact match, and the answer is the exact match
C9_Witness ==
  /\ op = "select"
  /\ Len(cands) = 2
  /\ ExactOfQuery = {2}
  /\ 1 \in FuzzyOfQuery
  /\ 1 \notin SameBrandWeightMatches(query, cands)
  /\ out.match_type = "exact"
  /\ out.index = 2

(***************************************************************************)
(* The fuzzy tier: queries and listings of which none is an exact or a     *)
(* same brand and weight match                                             *)
(***************************************************************************)
FuzzyQueries == {"Heinz Baked Beans " \o Qu, "Heinz Baked Beans"}

FuzzyListings ==
  {"",
   "Heinz Baked Beans 400g",
   "HEINZ Baked Beans 400g",
   "Heinz Baked Beans 400g Clubcard Price",
   "Heinz Baked Beans in Tomato Sauce",
   "Branston Baked Beans"}

InitFuzzy ==
  /\ op = "init"
  /\ query \in FuzzyQueries
  /\ cands \in ListsUpTo(FuzzyListings, MaxCands)
  /\ threshold \in Thresholds
  /\ out = NoOut
  /\ NoCache /\ NoBulk

NextFuzzy == SelectStep

SpecFuzzy == InitFuzzy /\ [][NextFuzzy]_vars

\* the combined score of listing i for the query, in thousandths: 0.6 of the
\* token set ratio, 0.2 of the brand similarity, 0.2 of the weight similarity
CombinedScore(i) ==
  token_set_ratio(clean_product_text(query), clean_product_text(cands[i])) * 6
  + check_brand_similarity(query, cands[i]) * 2
  + check_weight_similarity(query, cands[i]) * 2

\* the combined score less 0.3 for a listing with a promotional marker
AdjustedScore(i) == CombinedScore(i) - (IF is_promotional_price(cands[i]) THEN 300 ELSE 0)

\* C25: a 'fuzzy' answer is a named listing whose adjusted score is above the
\* threshold and is the greatest of all named listings, the earliest of those with
\* the greatest; its confidence is that adjusted score; and when no tier before
\* the fuzzy one answers and no adjusted score is above the threshold there is no answer
C25_FuzzySelection ==
  op = "select" =>
    /\ out.match_type = "fuzzy" =>
         /\ out.index \in Named(cands)
         /\ out.name = cands[out.index]
         /\ AdjustedScore(out.index) > threshold
         /\ \A i \in Named(cands) : AdjustedScore(i) <= AdjustedScore(out.index)
         /\ \A i \in Named(cands) : i < out.index => AdjustedScore(i) < AdjustedScore(out.index)
         /\ out.confidence = AdjustedScore(out.index)
    /\ (/\ ExactOfQuery = {}
        /\ SameBrandWeightMatches(query, cands) = {}
        /\ \A i \in Named(cands) : AdjustedScore(i) <= threshold) => out = NoOut

\* the first listing has the greater combined score but carries a promotional
\* marker, and the second one, with the greater adjusted score, is the fuzzy answer
C25_Witness ==
  /\ op = "select"
  /\ Len(cands) = 2
  /\ is_promotional_price(cands[1])
  /\ CombinedScore(1) > CombinedScore(2)
  /\ AdjustedScore(1) > threshold
  /\ out.match_type = "fuzzy"
  /\ out.index = 2

(***************************************************************************)
(* The exact tier on multipack queries: the listing identical to the       *)
(* query, the single-unit listing and the family pack of the same product  *)
(***************************************************************************)
PackBrands == {"Heinz", "Branston"}
PackProducts == {"Baked Beans", "Cream of Tomato Soup"}

\* the listings offered for the query 'b p N x Qu'
PackListings(b, p, q) == {"", q, Compose(b, p, "", Qu), Compose(b, p, "", "Family Pack")}

InitExact ==
  /\ op = "init"
  /\ \E b \in PackBrands, p \in PackProducts, n \in PackCounts :
       /\ query = Compose(b, p, "", Multipack(n))
       /\ cands \in ListsUpTo(PackListings(b, p, query), MaxCands)
  /\ threshold \in Thresholds
  /\ out = NoOut
  /\ NoCache /\ NoBulk

NextExact == SelectStep

SpecExact == InitExact /\ [][NextExact]_vars

\* the names in the list
NamesOf(names) == {names[i] : i \in DOMAIN names}

\* C28: for a multipack query 'B P N x Qu' and a list that holds the listing
\* identical to the query and the single-unit listing 'B P Qu', the identical
\* listing is returned; a single-unit listing is never returned as 'exact' with
\* confidence 1.0 for a multipack query; and the pack count 'N x' of the query is
\* not a promotional marker
C28_ExactRespectsPack ==
  op = "select" =>
    /\ (query \in NamesOf(cands) /\ \E c \in NamesOf(cands) : IsSingleOf(c, query))
         => out.name = query
    /\ ~(out.match_type = "exact" /\ out.confidence = 1000 /\ IsSingleOf(out.name, query))
    /\ \A c \in NamesOf(cands) : c = query => ~is_promotional_price(c)

(***************************************************************************)
(* Inputs of the segmenter: every entry of the brand lexicon in front of a *)
(* product                                                                 *)
(***************************************************************************)
Widget == "Widget 100g"

SegProducts == {Widget, "Baked Beans " \o Qu}

\* names whose brand is not the first word: a retailer or a generic word in front
\* of the brand, a leading quantity, no brand at all
OtherSegInputs ==
  {"Tesco Heinz " \o Widget, "Organic Heinz " \o Widget, "500g Acme " \o Widget,
   "Organic " \o Widget, "Acme " \o Widget, "Widget", "6 pack Widget",
   "200g Moroccan Couscous", "200G Widget", "Moroccan Couscous 200g", "1.5kg Acme Widget"}

SegInputs ==
  {known_brands[i] \o " " \o p : i \in DOMAIN known_brands, p \in SegProducts}
    \cup OtherSegInputs

InitSegment ==
  /\ op = "init"
  /\ query \in SegInputs
  /\ cands = <<>>
  /\ threshold = 0
  /\ out = NoOut
  /\ NoCache /\ NoBulk

\* one call of _extract_brand_and_product(query)
SegmentStep ==
  /\ op = "init"
  /\ op' = "segment"
  /\ out' = ExtractBrandAndProduct(query)
  /\ UNCHANGED <<query, cands, threshold, cache_dir, now, bulk>>

NextSegment == SegmentStep

SpecSegment == InitSegment /\ [][NextSegment]_vars

(***************************************************************************)
(* Properties of the segmenter                                             *)
(***************************************************************************)
\* C10: for every entry of the lexicon, the entry in front of "Widget 100g" is
\* segmented into exactly that entry, in its spelling and casing, and "Widget 100g"
C10_RoundTrip ==
  op = "segment" =>
    \A i \in DOMAIN known_brands :
      query = known_brands[i] \o " " \o Widget
        => (out.brand = known_brands[i] /\ out.product = Widget)

\* the name in its whitespace-normalized form: ' '.join(name.split())
Normalized(name) == Join(Split(name))

\* C11: the returned brand followed by the returned product is the
\* whitespace-normalized input name, so no part of the name is dropped
C11_Reconstructs ==
  op = "segment" => Normalized(out.brand \o " " \o out.product) = Normalized(query)

\* no entry of the lexicon occurs in the name
NoLexiconBrand(name) == FirstKnownBrand(Lower(name)) = 0

\* the word is a number directly followed by a unit, e.g. '200g'
IsQuantityToken(word) == Match(QuantityWordRe, Lower(word)).ok

\* the word is on the stop-list of generic words
IsStopWord(word) == Lower(word) \in common_words

\* the first word of the name is a quantity token or a stop-list word
GenericFirstWord(name) ==
  Len(Split(name)) > 0 /\ (IsQuantityToken(Split(name)[1]) \/ IsStopWord(Split(name)[1]))

BrandNames ==
  Range(known_brands)
    \cup {brand_variations[i][1] : i \in DOMAIN brand_variations}
    \cup UNION {brand_variations[i][2] : i \in DOMAIN brand_variations}
    \cup {"", " Alfez ", "AL-FEZ", "SAINSBURY", "Branston"}

InitBrands ==
  /\ op = "init"
  /\ query \in BrandNames
  /\ cands \in [1..1 -> BrandNames]
  /\ threshold = 0
  /\ out = NoOut
  /\ NoCache /\ NoBulk

\* one call of _are_brands_similar(query, cands[1])
BrandsStep ==
  /\ op = "init"
  /\ op' = "brands"
  /\ out' = [similar |-> AreBrandsSimilar(query, cands[1])]
  /\ UNCHANGED <<query, cands, threshold, cache_dir, now, bulk>>

NextBrands == BrandsStep

SpecBrands == InitBrands /\ [][NextBrands]_vars

\* (a, b) is a pair of the alias table: a key and one of its variations
IsAliasPair(a, b) ==
  \E i \in DOMAIN brand_variations : a = brand_variations[i][1] /\ b \in brand_variations[i][2]

\* C12: the brand comparison gives the same answer for (a, b) and (b, a), and the
\* answer is True for every pair of the alias table
C12_AliasSymmetry ==
  op = "brands" =>
    /\ out.similar = AreBrandsSimilar(cands[1], query)
    /\ (IsAliasPair(query, cands[1]) \/ IsAliasPair(cands[1], query)) => out.similar

\* a pair of the alias table in two different spellings was compared
C12_Witness ==
  /\ op = "brands"
  /\ IsAliasPair(query, cands[1])
  /\ query # cands[1]
  /\ out.similar

(***************************************************************************)
(* The scores handed out: the scorer, the confidence score of a search     *)
(* result and the confidence of the selector                               *)
(***************************************************************************)
\* the thresholds of [0, 1] given to the selector, in thousandths
RangeThresholds == {0, WorkflowThreshold, DefaultThreshold, 1000}

InitRange ==
  \/ Init
  \/ /\ op = "listed"
     /\ query \in SelQueries
     /\ cands \in ListsUpTo(Listings, 1)
     /\ threshold \in RangeThresholds
     /\ out = NoOut
     /\ NoCache /\ NoBulk

\* the scores of the record that _extract_product_info_with_confidence returns
ProductInfo(similarity_score, product_name, original_product_name, has_prices) ==
  [similarity_score |-> similarity_score,
   has_prices |-> has_prices,
   confidence_score |->
     CalculateConfidenceScore(similarity_score, product_name, original_product_name, has_prices)]

\* _extract_product_info_with_confidence for a card named cands[1], searched for
\* query: the similarity score, then the confidence score
ConfidenceStep ==
  /\ op = "init"
  /\ op' = "confidence"
  /\ \E has_prices \in BOOLEAN :
       out' = ProductInfo(Score(cands[1], query), cands[1], query, has_prices)
  /\ UNCHANGED <<query, cands, threshold, cache_dir, now, bulk>>

\* one call of enhanced_product_match(query, cands, threshold)
SelectListedStep ==
  /\ op = "listed"
  /\ op' = "select"
  /\ out' = enhanced_product_match(query, cands, threshold)
  /\ UNCHANGED <<query, cands, threshold, cache_dir, now, bulk>>

NextRange == ScoreStep \/ ConfidenceStep \/ SelectListedStep

SpecRange == InitRange /\ [][NextRange]_vars

\* C13: every score of the scorer, every confidence score of a search result and
\* every confidence of a match of the selector lies in [0, 1]
C13_ScoreRange ==
  /\ op = "score" => (0 <= out.score /\ out.score <= Scale)
  /\ op = "confidence" =>
       (0 <= out.confidence_score /\ out.confidence_score <= ConfidenceUnit * Scale)
  /\ (op = "select" /\ out.match_type # "none") =>
       (0 <= out.confidence /\ out.confidence <= 1000)

\* the scorer clamped a sum above 1.0
C13_Witness == op = "score" /\ out.path = "full" /\ out.raw > Scale /\ out.score = Scale

(***************************************************************************)
(* The pack classification and the quantity term: _is_multipack and        *)
(* _extract_quantity_and_pack_size on one name, the quantity term on two   *)
(***************************************************************************)
\* the size and pack wordings of the names
SizeWordings ==
  {"", "415g", "1 pack", "1 x 415g", "4 x 4", "6 pack", "6 x 415g", "6 cans",
   "Family Pack", "Multipack", "1kg", "1000g", "1g", "1.5l", "1500ml", "2 x 1kg", "2 x 1000g"}

SizedNames == {Compose("Heinz", "Beanz", "", k) : k \in SizeWordings}

InitPack ==
  /\ op = "init"
  /\ query \in SizedNames
  /\ \E c \in SizedNames : cands = <<c>>
  /\ threshold = 0
  /\ out = NoOut
  /\ NoCache /\ NoBulk

\* _is_multipack(query) next to _extract_quantity_and_pack_size(query)
ClassifyStep ==
  /\ op = "init"
  /\ op' = "classify"
  /\ out' = [is_multipack |-> IsMultipack(query), e |-> ExtractQuantityAndPackSize(query)]
  /\ UNCHANGED <<query, cands, threshold, cache_dir, now, bulk>>

NextPack == ClassifyStep \/ QuantityStep

SpecPack == InitPack /\ [][NextPack]_vars

\* the name carries one of the two multipack phrases
HasPackPhrase(name) ==
  Contains(Lower(name), "family pack") \/ Contains(Lower(name), "multipack")

\* C22: a name is classified as multipack exactly when its extracted pack size is
\* greater than 1 or it carries 'family pack' or 'multipack'
C22_MultipackAgrees ==
  op = "classify" => (out.is_multipack <=> (out.e.pack_size > 1 \/ HasPackPhrase(query)))

\* the unit of the first weight or volume of a name in the base unit of its
\* dimension: thousandths of g or ml per unit of the number in front of it
UnitFactor(unit) == IF unit \in {"kg", "l"} THEN 1000 ELSE 1

\* (\d+\.?\d*)\s*(g|kg|ml|l|oz|lb)
SizeRe == <<GOpen(1)>> \o Number \o <<GClose(1), Star(SpaceSet), GOpen(2), WeightUnits, GClose(2)>>

\* the first quantity of the name converted to g or ml, in units of 1/QScale
ConvertedQuantity(name) ==
  LET m == Search(SizeRe, Lower(name))
  IN IF m.ok THEN ParseFloat(Group(Lower(name), m, 1)) * UnitFactor(Group(Lower(name), m, 2))
     ELSE -1

\* the unit of the first quantity of the name, "" if it has none
UnitOf(name) ==
  LET m == Search(SizeRe, Lower(name))
  IN IF m.ok THEN Group(Lower(name), m, 2) ELSE ""

\* C23: for two names with a quantity each and equal pack sizes, the quantity
\* term is the equal-quantity bonus (0.3) when the quantities are equal after
\* conversion of kg to g and of l to ml, and is not that bonus when the numbers
\* are equal and the units differ
C23_UnitAware ==
  (op = "quantity" /\ out.e1.has /\ out.e2.has /\ out.e1.pack_size = out.e2.pack_size) =>
    /\ ConvertedQuantity(query) = ConvertedQuantity(cands[1]) => out.bonus = Tenths(3)
    /\ (out.e1.quantity = out.e2.quantity /\ UnitOf(query) # UnitOf(cands[1]))
         => out.bonus # Tenths(3)

(***************************************************************************)
(* The scorer on pairs of names in both orders: names that differ in the   *)
(* letter case of their product words only, and the names of the tests     *)
(***************************************************************************)
Ketchup == "Heinz Tomato Ketchup 460g"

\* Ketchup with its product words in another letter case
CaseVariants == {Ketchup, "Heinz tomato ketchup 460g", "Heinz TOMATO KETCHUP 460g"}

PairNames ==
  CaseVariants \cup
  {"Heinz Tomato Ketchup", "Tomato Ketchup 460g", "Heinz",
   "Heinz Baked Beans 415g", "Heinz baked beans 415g", "Heinz Beanz 6 x 415g",
   "Heinz Baked Beans Reduced Sugar 415g", "Heinz Baked Beans Family Pack",
   "Branston Baked Beans 4 x 410g", "Heinz Cream of Tomato Soup 4 x 400g",
   "Heinz Classic Cream of Tomato Soup Family Pack", "Al-fez Couscous 200g",
   "Alfez Cous 200g"}

InitPairs ==
  /\ op = "init"
  /\ query \in PairNames
  /\ \E c \in PairNames : cands = <<c>>
  /\ threshold = 0
  /\ out = NoOut
  /\ NoCache /\ NoBulk

NextPairs == ScoreStep

SpecPairs == InitPairs /\ [][NextPairs]_vars

\* C24: two names that are equal up to letter case score the same as two
\* identical names
C24_CaseInsensitive ==
  (op = "score" /\ Lower(query) = Lower(cands[1])) => out.score = Score(query, query)

\* C30: the score of a pair of names is the score of the pair in the other order
C30_Symmetric == op = "score" => out.score = Score(cands[1], query)

\* a pair of different names of which the second alone carries a variant marker
\* has been scored, with a score strictly between 0 and 1
C30_Witness ==
  /\ op = "score"
  /\ query = Ketchup
  /\ cands[1] = "Heinz Baked Beans Reduced Sugar 415g"
  /\ out.score > 0 /\ out.score < Scale

(***************************************************************************)
(* FixedTrolleyScraper: the search terms of a query                        *)
(***************************************************************************)
RECURSIVE IntStr(_)
\* str(n) of an int n >= 0
IntStr(n) == IF n < 10 THEN Digit(n) ELSE IntStr(n \div 10) \o Digit(n % 10)

\* urllib.parse.quote of a cleaned name: of its characters (word characters, blanks
\* and hyphens) only the blank is not safe
Quote(clean_name) == Sub(<<One({" "})>>, "%20", clean_name)

\* _clean_search_term
CleanSearchTerm(product_name) ==
  Quote(Strip(Sub(SpacesRe, " ", Sub(SpecialRe, " ", product_name))))

\* the list with term appended if the condition holds
AppendIf(terms, condition, term) == IF condition THEN Append(terms, term) ELSE terms

\* the terms of _generate_multipack_terms for a pack size above 1; beanz: "beanz"
\* is in the lower-cased name. int(quantity) of term 4 raises TypeError when the
\* quantity is None
PackTerms(brand, e, beanz) ==
  [raised |-> beanz /\ ~e.has,
   terms |->
     AppendIf(
       AppendIf(
         AppendIf(
           AppendIf(
             AppendIf(
               AppendIf(<<>>, brand # "", brand \o " Family Pack"),
               beanz, brand \o " Baked Beans Family Pack"),
             e.has /\ e.quantity # 0, brand \o " " \o IntStr(e.pack_size) \o " pack"),
           brand # "", brand \o " multipack"),
         beanz /\ e.has,
         brand \o " Baked Beans " \o IntStr(e.pack_size) \o " x "
               \o IntStr(e.quantity \div QScale) \o "g"),
       brand # "", brand \o " " \o IntStr(e.pack_size) \o " pack")]

\* _generate_multipack_terms for the extracted quantity and pack size e
MultipackTermsOf(product_name, brand, e) ==
  IF e.pack_size > 1 THEN PackTerms(brand, e, Contains(Lower(product_name), "beanz"))
  ELSE [raised |-> FALSE, terms |-> <<>>]

\* _generate_multipack_terms: the terms, or raised = TRUE for the TypeError
GenerateMultipackTerms(product_name, brand) ==
  MultipackTermsOf(product_name, brand, ExtractQuantityAndPackSize(product_name))

\* a term of the multipack terms that is taken first
IsSpecificTerm(term) == Contains(term, "Baked Beans") \/ Contains(term, "Family Pack")

\* specific_terms + general_terms
SpecificFirst(multipack_terms) ==
  SelectSeq(multipack_terms, IsSpecificTerm)
    \o SelectSeq(multipack_terms, LAMBDA term : ~IsSpecificTerm(term))

\* strategies 1 to 4: the full name, brand + product, the product, the brand
StrategyTerms(product_name, brand, product, full_term) ==
  AppendIf(
    AppendIf(
      AppendIf(<<full_term>>,
               brand # "" /\ product # "" /\ CleanSearchTerm(brand \o " " \o product) # full_term,
               CleanSearchTerm(brand \o " " \o product)),
      product # "" /\ product # product_name, CleanSearchTerm(product)),
    brand # "", CleanSearchTerm(brand))

RECURSIVE UniqueFrom(_, _, _)
\* the terms from position i on that are not in seen, in their order
UniqueFrom(search_terms, i, seen) ==
  IF i > Len(search_terms) THEN <<>>
  ELSE IF search_terms[i] \in seen THEN UniqueFrom(search_terms, i + 1, seen)
  ELSE <<search_terms[i]>> \o UniqueFrom(search_terms, i + 1, seen \cup {search_terms[i]})

\* the list as it is, duplicates kept
UniqueKept(search_terms) == search_terms

\* remove duplicates while preserving order
Unique(search_terms) == UniqueFrom(search_terms, 1, {})

\* the most search strategies that are returned
MaxTerms == 2

\* the return of _generate_search_terms: unique_terms[:2]; candidates is the list
\* before the duplicates are removed
TermsOf(search_terms) ==
  [raised |-> FALSE, candidates |-> search_terms,
   terms |-> SubSeq(Unique(search_terms), 1, Min(MaxTerms, Len(Unique(search_terms))))]

\* _generate_search_terms for the multipack terms m
WithMultipackTerms(product_name, seg, m) ==
  IF m.raised THEN [raised |-> TRUE, candidates |-> <<>>, terms |-> <<>>]
  ELSE TermsOf(SpecificFirst(m.terms)
               \o StrategyTerms(product_name, seg.brand, seg.product,
                                CleanSearchTerm(product_name)))

\* _generate_search_terms for the segmentation seg of the name
TermsOfSegments(product_name, seg) ==
  WithMultipackTerms(product_name, seg,
    IF IsMultipack(product_name) THEN GenerateMultipackTerms(product_name, seg.brand)
    ELSE [raised |-> FALSE, terms |-> <<>>])

\* _generate_search_terms: the terms, or raised = TRUE for the TypeError of
\* _generate_multipack_terms
GenerateSearchTerms(product_name) ==
  TermsOfSegments(product_name, ExtractBrandAndProduct(product_name))

\* the queries: the names of the scorer's universe
TermQueries == Candidates

InitTerms ==
  /\ op = "init"
  /\ query \in TermQueries
  /\ cands = <<>>
  /\ threshold = 0
  /\ out = NoOut
  /\ NoCache /\ NoBulk

\* one call of _generate_search_terms(query)
GenerateStep ==
  /\ op = "init"
  /\ op' = "generate"
  /\ out' = GenerateSearchTerms(query)
  /\ UNCHANGED <<query, cands, threshold, cache_dir, now, bulk>>

\* the search requests of search_product for the generated terms g: none when the
\* generation raised (the exception is caught and [] returned), else one for each
\* term up to the term after which an excellent match stops the loop
SearchRequests(g) == IF g.raised THEN {0} ELSE 1..Len(g.terms)

\* one call of search_product(query): served from the cache, or the search requests
SearchStep ==
  /\ op = "init"
  /\ op' = "search"
  /\ \E cached \in BOOLEAN :
       IF cached THEN out' = [cached |-> TRUE, raised |-> FALSE, requests |-> 0]
       ELSE \E n \in SearchRequests(GenerateSearchTerms(query)) :
              out' = [cached |-> FALSE, raised |-> GenerateSearchTerms(query).raised,
                      requests |-> n]
  /\ UNCHANGED <<query, cands, threshold, cache_dir, now, bulk>>

NextTerms == GenerateStep \/ SearchStep

SpecTerms == InitTerms /\ [][NextTerms]_vars

(***************************************************************************)
(* Properties of the search terms                                          *)
(***************************************************************************)
\* the positions of the candidate terms that differ from the first one
AfterFirst(candidates) == {k \in DOMAIN candidates : candidates[k] # candidates[1]}

C16_NeverRaises == op = "generate" => ~out.raised

\* the category-qualified multipack term of a query
CategoryQualified(name) == ExtractBrand(name) \o " Baked Beans Family Pack"

\* C20: when the multipack terms of a query hold the category-qualified term
\* (brand + "Baked Beans" + "Family Pack"), it is the first term returned
C20_CategoryQualifiedFirst ==
  (/\ op = "generate"
   /\ ~out.raised
   /\ \E k \in DOMAIN out.candidates : out.candidates[k] = CategoryQualified(query))
    => out.terms[1] = CategoryQualified(query)

(***************************************************************************)
(* FixedTrolleyScraper: the name extracted from a product card             *)
(***************************************************************************)
RECURSIVE SubGroupsFrom(_, _, _)
\* one replacement of re.sub(p, r'\1 \2', s), m being the leftmost match from pos on
SubGroupsMatch(p, s, pos, m) ==
  IF ~m.ok THEN From(s, pos)
  ELSE SubSeq(s, pos, m.b - 1) \o Group(s, m, 1) \o " " \o Group(s, m, 2)
         \o SubGroupsFrom(p, s, m.e)

SubGroupsFrom(p, s, pos) ==
  IF pos > Len(s) + 1 THEN "" ELSE SubGroupsMatch(p, s, pos, SearchFrom(p, s, pos))

\* re.sub(r'(\d+<unit>)([A-Z])', r'\1 \2', name)
SpaceAfterUnit(unit, name) ==
  SubGroupsFrom(<<GOpen(1), Plus(DigitSet), Lit(unit), GClose(1),
                  GOpen(2), One(UpperSet), GClose(2)>>, name, 1)

\* str.replace(old, new)
Replace(name, old, new) == Sub(<<Lit(old)>>, new, name)

Pound == "£"

\* remove price information
RemovePrices(name) ==
  Sub(<<Plus(DigitSet), Opt({"."}), Star(DigitSet), Star(SpaceSet), Lit("each")>>, "",
    Sub(<<Plus(DigitSet), Opt({"."}), Star(DigitSet), Star(SpaceSet), Lit("per"),
          Star(SpaceSet), Lit("100g")>>, "",
      Sub(<<One({Pound}), Star(SpaceSet), Plus(DigitSet), Opt({"."}), Star(DigitSet)>>,
          "", name)))

\* add spaces between quantity and brand, and between brand and product
AddSpaces(name) ==
  SubGroupsFrom(<<GOpen(1), One(LowerSet), GClose(1), GOpen(2), One(UpperSet), GClose(2)>>,
    SpaceAfterUnit("l", SpaceAfterUnit("ml", SpaceAfterUnit("kg",
      SpaceAfterUnit("g", name)))), 1)

\* clean up multiple spaces, then remove "more sizes" and similar text
RemoveMoreSizes(name) ==
  SubI(<<Plus(DigitSet), Plus(SpaceSet), Lit("more"), Plus(SpaceSet), Lit("size")>>, "",
    SubI(<<Plus(DigitSet), Plus(SpaceSet), Lit("more"), Plus(SpaceSet), Lit("size"),
           Opt({"s"})>>, "",
      Sub(<<Plus(SpaceSet)>>, " ", name)))

\* the specific Heinz multipack patterns
HeinzPatterns(name) ==
  IF Contains(name, "415g6Heinz") /\ Contains(name, "Baked Beans")
  THEN "Heinz Baked Beans Family Pack"
  ELSE IF Contains(name, "400g6Heinz") /\ Contains(name, "Family Pack")
  THEN Replace(name, "400g6Heinz", "Heinz ")
  ELSE IF Contains(name, "550g Heinz") /\ Contains(name, "Family Pack")
  THEN Replace(name, "550g ", "")
  ELSE name

\* the name after name.replace("410g4Branston", "Branston ")
BranstonRewrite(name) ==
  IF Contains(name, "in Tomato Sauce")
  THEN "Branston Baked Beans in Tomato Sauce 4 x 410g"
  ELSE IF Contains(name, "Reduced Salt and Sugar") \/ Contains(name, "Reduced Sugar")
  THEN "Branston Baked Beans Reduced Salt and Sugar 4 x 410g"
  ELSE name

\* the Branston multipack patterns
BranstonPatterns(name) ==
  IF Contains(name, "410g4Branston") /\ Contains(name, "Baked Beans")
  THEN BranstonRewrite(Replace(name, "410g4Branston", "Branston "))
  ELSE name

\* remove trailing numbers and special characters, clean up multiple spaces
RemoveTrailing(name) ==
  Strip(Sub(<<Plus(SpaceSet)>>, " ",
    Sub(<<NotCls(WordSet \cup SpaceSet \cup {"'", "-"}, 1, 1)>>, " ",
      Sub(<<Star(SpaceSet), Plus(DigitSet), Star(SpaceSet), Eos>>, "", name))))

\* _clean_extracted_name(name) for a string
CleanName(name) ==
  RemoveTrailing(BranstonPatterns(HeinzPatterns(RemoveMoreSizes(AddSpaces(
    RemovePrices(name))))))

\* an argument that is None or a string
NoneText == [has |-> FALSE, text |-> ""]
Text(t) == [has |-> TRUE, text |-> t]

\* _clean_extracted_name(name): re.sub raises TypeError when name is None
CleanExtractedName(name) ==
  IF ~name.has THEN [raised |-> TRUE, text |-> ""]
  ELSE [raised |-> FALSE, text |-> CleanName(name.text)]

\* raw texts of product cards: a collapsed quantity, a name, price and counter leftovers
RawQuantities == {"", "415g6", "400g6", "550g ", "410g4", "200g"}
RawNames ==
  {"Heinz Baked Beans", "Heinz Classic Cream of Tomato Soup Family Pack",
   "BranstonBaked Beans in Tomato Sauce", "BranstonBaked Beans Reduced Sugar",
   "Al'FezMoroccan Spice"}
RawLeftovers ==
  {"", "1 13 more sizes", " " \o Pound \o "1.50", "25.5 per 100g", " 2 each ", " & Co. "}
RawTexts ==
  {q \o n \o l : q \in RawQuantities, n \in RawNames, l \in RawLeftovers}
    \cup {"", " ", "12", Pound \o " 3"}

InitNormalize ==
  /\ op = "init"
  /\ query \in {NoneText} \cup {Text(t) : t \in RawTexts}
  /\ cands = <<>>
  /\ threshold = 0
  /\ out = NoOut
  /\ NoCache /\ NoBulk

\* one call of _clean_extracted_name(query)
NormalizeStep ==
  /\ op = "init"
  /\ op' = "normalize"
  /\ out' = CleanExtractedName(query)
  /\ UNCHANGED <<query, cands, threshold, cache_dir, now, bulk>>

NextNormalize == NormalizeStep

SpecNormalize == InitNormalize /\ [][NextNormalize]_vars

target_retailers == <<"Tesco", "Morrisons", "Ocado", "Sainsbury's", "ASDA", "Wilko", "Co-op">>
priority_retailers == <<"Tesco", "Morrisons", "Ocado", "Sainsbury's">>
other_retailers == <<"ASDA", "Wilko", "Co-op">>

\* an Optional[float]: None, or a number of 1/QScale
NoPrice == [has |-> FALSE, value |-> 0]
Price(v) == [has |-> TRUE, value |-> v]

\* the truth value of an Optional[float]: None and 0.0 are false
Truthy(price) == price.has /\ price.value # 0

\* \d+\.?\d* as capture group 1
PriceGroup == <<GOpen(1)>> \o Number \o <<GClose(1)>>

\* rf'{re.escape(retailer)}[^£]*?£\s*(\d+\.?\d*)', on the lowered page
PriceAfterName(retailer) ==
  <<Lit(Lower(retailer)), NotCls({Pound}, 0, -1), One({Pound}), Star(SpaceSet)>> \o PriceGroup

\* rf'£\s*(\d+\.?\d*)[^£]*?{re.escape(retailer)}', on the lowered page
PriceBeforeName(retailer) ==
  <<One({Pound}), Star(SpaceSet)>> \o PriceGroup
    \o <<NotCls({Pound}, 0, -1), Lit(Lower(retailer))>>

\* float(matches[0]) of re.findall for the first pattern that matches, else None
FirstPriceOf(low, after, before) ==
  IF after.ok THEN Price(ParseFloat(Group(low, after, 1)))
  ELSE IF before.ok THEN Price(ParseFloat(Group(low, before, 1)))
  ELSE NoPrice

\* _extract_retailer_price_fast(page_text, retailer)
ExtractRetailerPriceFast(page_text, retailer) ==
  FirstPriceOf(Lower(page_text), Search(PriceAfterName(retailer), Lower(page_text)),
               Search(PriceBeforeName(retailer), Lower(page_text)))

NoPrices == [retailer_prices |-> <<>>, probed |-> <<>>]

\* the map and the probes after one probe of retailer that gave price
Probed(acc, retailer, price) ==
  [retailer_prices |->
     IF Truthy(price)
     THEN Append(acc.retailer_prices,
                 [name |-> retailer, price |-> price.value, price_per_unit |-> "",
                  currency |-> "GBP"])
     ELSE acc.retailer_prices,
   probed |-> Append(acc.probed, retailer)]

\* a selector that stops at the first retailer with a price
StopsAtAnyHit(retailer) == TRUE

\* the priority loop ends after a price of this retailer
StopsAtHit(retailer) == retailer = "Tesco"

RECURSIVE ProbePriority(_, _, _)
\* the rest of the priority loop after the probe of priority_retailers[i]
AfterPriorityProbe(page_text, i, acc, price) ==
  IF Truthy(price) /\ StopsAtHit(priority_retailers[i])
  THEN Probed(acc, priority_retailers[i], price)
  ELSE ProbePriority(page_text, i + 1, Probed(acc, priority_retailers[i], price))

\* the loop over priority_retailers from index i on
ProbePriority(page_text, i, acc) ==
  IF i > Len(priority_retailers) THEN acc
  ELSE IF priority_retailers[i] \notin Range(target_retailers)
  THEN ProbePriority(page_text, i + 1, acc)
  ELSE AfterPriorityProbe(page_text, i, acc,
                          ExtractRetailerPriceFast(page_text, priority_retailers[i]))

RECURSIVE ProbeOthers(_, _, _)
\* the loop over other_retailers from index i on
ProbeOthers(page_text, i, acc) ==
  IF i > Len(other_retailers) THEN acc
  ELSE IF other_retailers[i] \notin Range(target_retailers)
  THEN ProbeOthers(page_text, i + 1, acc)
  ELSE ProbeOthers(page_text, i + 1,
         Probed(acc, other_retailers[i],
                ExtractRetailerPriceFast(page_text, other_retailers[i])))

\* the other retailers are checked only when no priority retailer gave a price
AfterPriority(page_text, acc) ==
  IF acc.retailer_prices = <<>> THEN ProbeOthers(page_text, 1, acc) ELSE acc

\* _parse_retailer_prices_fixed(soup), page_text being soup.get_text()
ParseRetailerPricesFixed(page_text) ==
  AfterPriority(page_text, ProbePriority(page_text, 1, NoPrices))

(***************************************************************************)
(* EnhancedProductMatcher: the price of a match                            *)
(***************************************************************************)
\* the values of an item's 'price' and 'price_text': missing, an int or a text
NoField == [kind |-> "none", number |-> 0, text |-> ""]
IntField(n) == [kind |-> "number", number |-> n, text |-> ""]
Field(t) == [kind |-> "text", number |-> 0, text |-> t]

\* the truth value of a field: None, 0 and '' are false
FieldTruthy(f) ==
  \/ f.kind = "number" /\ f.number # 0
  \/ f.kind = "text" /\ f.text # ""

\* str(price_text)
FieldStr(f) ==
  IF f.kind = "text" THEN f.text
  ELSE IF f.number < 0 THEN "-" \o IntStr(-f.number) ELSE IntStr(f.number)

\* a price of the matcher is a number of 1/(PenceScale * QScale) pounds
PenceScale == 100

\* the price patterns, in their order, the pence patterns marked
price_patterns ==
  <<[pattern |-> <<One({Pound}), GOpen(1), Plus(DigitSet), One({"."}), Cls(DigitSet, 2, 2),
                   GClose(1)>>, pence |-> FALSE],
    [pattern |-> <<One({Pound}), GOpen(1), Plus(DigitSet), GClose(1)>>, pence |-> FALSE],
    [pattern |-> <<GOpen(1), Plus(DigitSet), One({"."}), Cls(DigitSet, 2, 2), GClose(1),
                   One({"p"})>>, pence |-> TRUE],
    [pattern |-> <<GOpen(1), Plus(DigitSet), GClose(1), One({"p"})>>, pence |-> TRUE]>>

RECURSIVE PriceFromPatterns(_, _)
\* the value of the match m of price_patterns[i], or the later patterns
PriceOfPattern(text, i, m) ==
  IF m.ok
  THEN Price(IF price_patterns[i].pence THEN ParseFloat(Group(text, m, 1))
             ELSE ParseFloat(Group(text, m, 1)) * PenceScale)
  ELSE PriceFromPatterns(text, i + 1)

\* the loop over price_patterns from index i on
PriceFromPatterns(text, i) ==
  IF i > Len(price_patterns) THEN NoPrice
  ELSE PriceOfPattern(text, i, Search(price_patterns[i].pattern, text))

\* the price of a text: item.get('price', '') or item.get('price_text', '')
PriceOfText(price_text) ==
  IF ~FieldTruthy(price_text) THEN NoPrice ELSE PriceFromPatterns(FieldStr(price_text), 1)

\* isinstance(price_value, (int, float)) and price_value > 0
IsPositiveNumber(price_value) == price_value.kind = "number" /\ price_value.number > 0

\* _extract_price(item)
ExtractPrice(item) ==
  IF IsPositiveNumber(item.price) THEN Price(item.price.number * PenceScale * QScale)
  ELSE PriceOfText(IF FieldTruthy(item.price) THEN item.price ELSE item.price_text)

\* _create_product_match for the match m of an item that carries prices
PricedMatch(m, item) ==
  IF m.match_type = "none" THEN [match_type |-> "none"]
  ELSE [match_type |-> m.match_type, name |-> m.name, confidence |-> m.confidence,
        price |-> ExtractPrice(item)]

(***************************************************************************)
(* Product pages and priced items                                          *)
(***************************************************************************)
\* what a page says of a retailer: nothing, or its name and a price
PriceTexts == {"", "1.50", "0"}
Listed(retailer, price) == IF price = "" THEN "" ELSE retailer \o " " \o Pound \o price \o " "

RECURSIVE PageFrom(_, _, _)
PageFrom(shelf, f, i) ==
  IF i > Len(shelf) THEN "" ELSE Listed(shelf[i], f[i]) \o PageFrom(shelf, f, i + 1)

\* the retailers a page may list
Shelves ==
  {<<"Tesco", "Morrisons", "ASDA">>, <<"Morrisons", "Ocado", "Sainsbury's">>,
   <<"ASDA", "Wilko", "Co-op">>, <<"Co-op", "Sainsbury's">>}

Pages ==
  UNION {{PageFrom(shelf, f, 1) : f \in [DOMAIN shelf -> PriceTexts]} : shelf \in Shelves}
    \cup {Pound \o "2 tesco", "Tesco and Morrisons from " \o Pound \o " 2.05",
          "Ocado 85p, Wilko " \o Pound \o "x"}

PriceFields ==
  {NoField, IntField(0), IntField(2), IntField(-1), Field(""), Field(Pound \o "1.50"),
   Field(Pound \o "0.00"), Field(Pound \o "2"), Field("85p"), Field("0p"), Field("1.50p"),
   Field("1.99")}
PriceTextFields == {NoField, Field("Now " \o Pound \o "3.25"), Field(Pound \o "0")}

PricedNames == {"HEINZ Baked Beans, " \o Qu, Compose("Branston", "Baked Beans", "", Qu)}

PricedItems ==
  {[name |-> n, price |-> p, price_text |-> t] :
     n \in PricedNames, p \in PriceFields, t \in PriceTextFields}

InitPrices ==
  \/ /\ op = "page"
     /\ query \in Pages
     /\ cands = <<>>
     /\ threshold = 0
     /\ out = NoOut
     /\ NoCache /\ NoBulk
  \/ /\ op = "item"
     /\ query = Compose("Heinz", "Baked Beans", "", Qu)
     /\ cands \in {<<item>> : item \in PricedItems}
     /\ threshold \in Thresholds
     /\ out = NoOut
     /\ NoCache /\ NoBulk

\* one call of _parse_retailer_prices_fixed on the page query
ParseRetailerPricesStep ==
  /\ op = "page"
  /\ op' = "prices"
  /\ out' = ParseRetailerPricesFixed(query)
  /\ UNCHANGED <<query, cands, threshold, cache_dir, now, bulk>>

\* one call of enhanced_product_match on the priced item cands[1]
PricedMatchStep ==
  /\ op = "item"
  /\ op' = "match"
  /\ out' = PricedMatch(enhanced_product_match(query, <<cands[1].name>>, threshold), cands[1])
  /\ UNCHANGED <<query, cands, threshold, cache_dir, now, bulk>>

NextPrices == ParseRetailerPricesStep \/ PricedMatchStep

SpecPrices == InitPrices /\ [][NextPrices]_vars

(***************************************************************************)
(* Properties of the prices                                                *)
(***************************************************************************)
\* the retailers in their fixed order
ProbeOrder == priority_retailers \o other_retailers

\* the page gives a price for the retailer
HasPrice(page_text, retailer) == Truthy(ExtractRetailerPriceFast(page_text, retailer))

\* C17 as stated: the retailers are probed in the fixed order, no retailer is probed
\* after the first one with a price, and the map holds at most one retailer
C17_StopsAtFirstHit ==
  op = "prices" =>
    /\ out.probed = SubSeq(ProbeOrder, 1, Len(out.probed))
    /\ \A i \in DOMAIN out.probed : HasPrice(query, out.probed[i]) => i = Len(out.probed)
    /\ Len(out.retailer_prices) <= 1

\* C17 as amended: the retailers are probed in the fixed order; probing stops right
\* after Tesco when Tesco has a price; otherwise all priority retailers are probed,
\* and the other retailers are probed, all of them, only when no priority retailer has
\* a price; the map holds every probed retailer that has a price, with that price
C17_StopsAfterTesco ==
  op = "prices" =>
    /\ out.probed = SubSeq(ProbeOrder, 1, Len(out.probed))
    /\ out.probed =
         IF HasPrice(query, "Tesco") THEN <<"Tesco">>
         ELSE IF \E i \in DOMAIN priority_retailers : HasPrice(query, priority_retailers[i])
         THEN priority_retailers
         ELSE ProbeOrder
    /\ [i \in DOMAIN out.retailer_prices |-> out.retailer_prices[i].name]
         = SelectSeq(out.probed, LAMBDA r : HasPrice(query, r))
    /\ \A i \in DOMAIN out.retailer_prices :
         out.retailer_prices[i].price
           = ExtractRetailerPriceFast(query, out.retailer_prices[i].name).value

\* a page without a Tesco price gave the prices of several retailers
C17_Witness ==
  /\ op = "prices"
  /\ Len(out.retailer_prices) >= 2
  /\ Len(out.probed) > 1

\* C18: every price of the retailer price map and the price of every match is greater
\* than 0; a price that was not extracted is absent
C18_PricesPositive ==
  /\ op = "prices" =>
       \A i \in DOMAIN out.retailer_prices : out.retailer_prices[i].price > 0
  /\ (op = "match" /\ out.match_type # "none" /\ out.price.has) => out.price.value > 0

(***************************************************************************)
(* CacheManager: one json file for each product name and each URL          *)
(*                                                                         *)
(* cache_dir is the set of the files of the cache directory; a file has a  *)
(* name, the keys and values of its json and the hour it was written (its  *)
(* modification time and its 'timestamp').  now is the clock, in hours.    *)
(***************************************************************************)
\* hashlib.md5(data).hexdigest(); different data are taken to have different digests
GenerateCacheKey(data) == "md5(" \o data \o ")"

\* the file of a product name and the file of a URL
SearchFile(product_name) == GenerateCacheKey(product_name) \o ".json"
PriceFile(url) == "price_" \o GenerateCacheKey(url) \o ".json"

\* the cache files of older versions
search_cache_file == "search_cache.json"
price_cache_file == "price_cache.json"

cache_duration_hours == 24

File(name, keys, results, retailer_prices, written) ==
  [name |-> name, keys |-> keys, results |-> results, retailer_prices |-> retailer_prices,
   written |-> written]

\* cache_file.exists()
Exists(dir, name) == \E f \in dir : f.name = name

\* json.load of the file
Load(dir, name) == CHOOSE f \in dir : f.name = name

\* open(cache_file, 'w') and json.dump
Dump(dir, file) == {f \in dir : f.name # file.name} \cup {file}

\* cache_file.unlink() for the files of the names that exist
Unlink(dir, names) == {f \in dir : f.name \notin names}

\* _is_cache_valid(cache_file) for a file that exists: the modification time, else the
\* timestamp of the json, lies within the cache duration
IsCacheValid(file, clock) ==
  \/ clock - file.written < cache_duration_hours
  \/ "timestamp" \in file.keys /\ clock - file.written < cache_duration_hours

\* an Optional value
None == [has |-> FALSE, value |-> <<>>]
Some(v) == [has |-> TRUE, value |-> v]

\* get_search_results(product_name)
GetSearchResults(dir, clock, product_name) ==
  IF ~Exists(dir, SearchFile(product_name)) THEN None
  ELSE IF ~IsCacheValid(Load(dir, SearchFile(product_name)), clock) THEN None
  ELSE IF "results" \in Load(dir, SearchFile(product_name)).keys
  THEN Some(Load(dir, SearchFile(product_name)).results)
  ELSE None

\* set_search_results(product_name, results)
SetSearchResults(dir, clock, product_name, results) ==
  Dump(dir, File(SearchFile(product_name),
                 {"product_name", "results", "timestamp", "cache_duration_hours", "source"},
                 results, <<>>, clock))

\* get_price_data(url)
GetPriceData(dir, clock, url) ==
  IF Exists(dir, PriceFile(url)) /\ IsCacheValid(Load(dir, PriceFile(url)), clock)
     /\ "retailer_prices" \in Load(dir, PriceFile(url)).keys
  THEN Some(Load(dir, PriceFile(url)).retailer_prices)
  ELSE None

\* set_price_data(url, retailer_prices)
SetPriceData(dir, clock, url, retailer_prices) ==
  Dump(dir, File(PriceFile(url),
                 {"url", "retailer_prices", "timestamp", "cache_duration_hours"},
                 <<>>, retailer_prices, clock))

\* clear_cache(): the two files of the older versions are removed (the dictionaries
\* search_cache and price_cache it empties are placeholders that nothing reads)
ClearCache(dir) == Unlink(dir, {search_cache_file, price_cache_file})

(***************************************************************************)
(* The cache in use                                                        *)
(***************************************************************************)
CacheProducts == {"Branston Baked Beans 4 x 410g", "Heinz Baked Beans 415g"}
CacheUrls == {"/product/branston-baked-beans"}

\* what a search finds and what a product page gives
ResultLists == {<<>>, <<"Branston Baked Beans in Tomato Sauce 4 x 410g">>}
PriceData == {<<>>, <<"Tesco">>}

\* the clock advances by TickHours up to MaxHours
TickHours == 12
MaxHours == 24

LegacyFiles ==
  {File(search_cache_file, {}, <<>>, <<>>, 0), File(price_cache_file, {}, <<>>, <<>>, 0)}

InitCache ==
  /\ op = "init"
  /\ query = ""
  /\ cands = <<>>
  /\ threshold = 0
  /\ out = NoOut
  /\ cache_dir \in SUBSET LegacyFiles
  /\ now = 0
  /\ NoBulk

SetSearchResultsStep ==
  \E product_name \in CacheProducts, results \in ResultLists :
    /\ op' = "set_search_results"
    /\ query' = product_name
    /\ cache_dir' = SetSearchResults(cache_dir, now, product_name, results)
    /\ out' = NoOut
    /\ UNCHANGED <<cands, threshold, now, bulk>>

GetSearchResultsStep ==
  \E product_name \in CacheProducts :
    /\ op' = "get_search_results"
    /\ query' = product_name
    /\ out' = GetSearchResults(cache_dir, now, product_name)
    /\ UNCHANGED <<cands, threshold, cache_dir, now, bulk>>

SetPriceDataStep ==
  \E url \in CacheUrls, retailer_prices \in PriceData :
    /\ op' = "set_price_data"
    /\ query' = url
    /\ cache_dir' = SetPriceData(cache_dir, now, url, retailer_prices)
    /\ out' = NoOut
    /\ UNCHANGED <<cands, threshold, now, bulk>>

GetPriceDataStep ==
  \E url \in CacheUrls :
    /\ op' = "get_price_data"
    /\ query' = url
    /\ out' = GetPriceData(cache_dir, now, url)
    /\ UNCHANGED <<cands, threshold, cache_dir, now, bulk>>

ClearCacheStep ==
  /\ op' = "clear_cache"
  /\ query' = ""
  /\ cache_dir' = ClearCache(cache_dir)
  /\ out' = NoOut
  /\ UNCHANGED <<cands, threshold, now, bulk>>

\* search_product(product_name) with the cached results: they are returned when there
\* are some; else the search is made and its results are cached, or an exception of
\* the search ends the call with no results and nothing cached
SearchProduct(product_name, cached_results) ==
  IF cached_results.has /\ cached_results.value # <<>>
  THEN /\ out' = [cached |-> TRUE, results |-> cached_results.value]
       /\ UNCHANGED cache_dir
  ELSE \/ \E all_results \in ResultLists :
            /\ out' = [cached |-> FALSE, results |-> all_results]
            /\ cache_dir' = SetSearchResults(cache_dir, now, product_name, all_results)
       \/ /\ out' = [cached |-> FALSE, results |-> <<>>]
          /\ UNCHANGED cache_dir

SearchProductStep ==
  \E product_name \in CacheProducts :
    /\ op' = "search_product"
    /\ query' = product_name
    /\ SearchProduct(product_name, GetSearchResults(cache_dir, now, product_name))
    /\ UNCHANGED <<cands, threshold, now, bulk>>

\* time passes
TickStep ==
  /\ now + TickHours <= MaxHours
  /\ now' = now + TickHours
  /\ op' = "tick"
  /\ UNCHANGED <<query, cands, threshold, out, cache_dir, bulk>>

NextCache ==
  \/ SetSearchResultsStep
  \/ GetSearchResultsStep
  \/ SetPriceDataStep
  \/ GetPriceDataStep
  \/ ClearCacheStep
  \/ SearchProductStep
  \/ TickStep

SpecCache == InitCache /\ [][NextCache]_vars

\* C19: when clear_cache has returned, get_search_results and get_price_data return
\* None for every product name and every URL
C19_ClearCacheClearsAll ==
  op = "clear_cache" =>
    /\ \A product_name \in CacheProducts :
         ~GetSearchResults(cache_dir, now, product_name).has
    /\ \A url \in CacheUrls : ~GetPriceData(cache_dir, now, url).has


(***************************************************************************)
(* search_product and search_with_fallback on one cache directory          *)
(*                                                                         *)
(* A result is written as the name of the listing and the keys of its      *)
(* dictionary.  What the site lists for a product name is the input of a   *)
(* search.                                                                 *)
(***************************************************************************)
\* the dictionary _extract_product_info returns
ProductInfoKeys ==
  {"name", "url", "brand", "quantity", "similarity_score", "retailer_prices", "website",
   "original_search"}

\* the dictionary _extract_product_info_with_confidence returns
ProductInfoWithConfidenceKeys == ProductInfoKeys \cup {"confidence_score", "search_strategy"}

\* the names of the listings a search keeps, best first
FoundNames ==
  {<<>>, <<"Branston Baked Beans in Tomato Sauce 4 x 410g">>,
   <<"Heinz Baked Beans 415g", "Heinz Baked Beans No Added Sugar 415g">>}

\* the results of the names, each with the keys
Shaped(names, keys) == [i \in 1..Len(names) |-> [name |-> names[i], keys |-> keys]]

\* search_product(product_name) with the cached results: they are returned when there
\* are some; else every card kept becomes the dictionary of _extract_product_info and
\* the list is cached, or an exception of the search ends the call with no results
SearchProductInfo(product_name, cached_results) ==
  IF cached_results.has /\ cached_results.value # <<>>
  THEN /\ out' = [cached |-> TRUE, results |-> cached_results.value]
       /\ UNCHANGED cache_dir
  ELSE \/ \E names \in FoundNames :
            /\ out' = [cached |-> FALSE, results |-> Shaped(names, ProductInfoKeys)]
            /\ cache_dir' = SetSearchResults(cache_dir, now, product_name,
                                             Shaped(names, ProductInfoKeys))
       \/ /\ out' = [cached |-> FALSE, results |-> <<>>]
          /\ UNCHANGED cache_dir

\* search_with_fallback(product_name) with the cached results: they are returned as
\* they are when there are some; else every result of the four strategies is the
\* dictionary of _extract_product_info_with_confidence, and the list without its
\* duplicates is cached, or an exception of the search ends the call with no results
SearchWithFallback(product_name, cached_results) ==
  IF cached_results.has /\ cached_results.value # <<>>
  THEN /\ out' = [cached |-> TRUE, results |-> cached_results.value]
       /\ UNCHANGED cache_dir
  ELSE \/ \E names \in FoundNames :
            /\ out' = [cached |-> FALSE,
                       results |-> Shaped(names, ProductInfoWithConfidenceKeys)]
            /\ cache_dir' = SetSearchResults(cache_dir, now, product_name,
                                             Shaped(names, ProductInfoWithConfidenceKeys))
       \/ /\ out' = [cached |-> FALSE, results |-> <<>>]
          /\ UNCHANGED cache_dir

\* max(trolley_results, key=lambda x: x['confidence_score']) of get_best_prices and
\* best_trolley['similarity_score'] raise no KeyError
CanRank(trolley_results) ==
  \A i \in 1..Len(trolley_results) :
    {"confidence_score", "similarity_score"} \subseteq trolley_results[i].keys

SearchProductInfoStep ==
  \E product_name \in CacheProducts :
    /\ op' = "search_product"
    /\ query' = product_name
    /\ SearchProductInfo(product_name, GetSearchResults(cache_dir, now, product_name))
    /\ UNCHANGED <<cands, threshold, now, bulk>>

SearchWithFallbackStep ==
  \E product_name \in CacheProducts :
    /\ op' = "search_with_fallback"
    /\ query' = product_name
    /\ SearchWithFallback(product_name, GetSearchResults(cache_dir, now, product_name))
    /\ UNCHANGED <<cands, threshold, now, bulk>>

NextFallback ==
  \/ SearchProductInfoStep
  \/ SearchWithFallbackStep
  \/ TickStep

SpecFallback == InitCache /\ [][NextFallback]_vars

\* C29: every result search_with_fallback returns carries a confidence_score and a
\* similarity_score, whatever calls of search_product and search_with_fallback came
\* before it on the same cache directory, so that get_best_prices can rank the results
C29_FallbackShape ==
  op = "search_with_fallback" => CanRank(out.results)


(***************************************************************************)
(* The bulk runs: run_bulk_with_resume.py and run_bulk_fast.py             *)
(*                                                                         *)
(* progress_file is bulk_processing_progress.json, run is the process of   *)
(* the script (its local variables and its place in the loop), finished    *)
(* records each product whose loop iteration has come to its end, with     *)
(* what the workflow gave for it.  A result is written as the name of the  *)
(* product it is for.  A KeyboardInterrupt ends the process at the place   *)
(* it arrives: while the workflow of a product runs, or while              *)
(* save_progress writes the file it has opened with mode 'w'.              *)
(***************************************************************************)
\* the number of products in the Excel file
MaxProducts == 6

\* the number of times a script is started
MaxRuns == 2

\* read_products_from_excel(): the Product_Name column
product_names == [k \in 1..MaxProducts |-> "Product " \o Digit(k)]

\* what the workflow gives for a product: matches, no match, or an exception
\* that reaches the loop
Outcomes == {"matches", "none", "raised"}

\* a file that open(PROGRESS_FILE, 'w') has truncated and json.dump has not
\* finished writing: it is not valid JSON
Torn == [state |-> "torn"]

\* the file json.dump(progress, f) writes; progress["results"] is the list all_results
Dumped(progress, all_results) ==
  [state |-> "json",
   completed_products |-> progress.completed_products,
   results |-> all_results,
   last_product_index |-> progress.last_product_index]

\* load_progress: the content of the file, or the empty progress when the file
\* is missing or json.load fails on it
load_progress(file) ==
  IF file.state = "json"
  THEN [completed_products |-> file.completed_products,
        results |-> file.results,
        last_product_index |-> file.last_product_index]
  ELSE [completed_products |-> {}, results |-> <<>>, last_product_index |-> 0]

\* [p for p in product_names if p not in completed_products]
Remaining(completed_products) ==
  SelectSeq(product_names, LAMBDA p : p \notin completed_products)

\* the process after the start of a script, up to the loop
Started(script, progress, remaining_products) ==
  IF remaining_products = <<>>
  THEN [pc |-> "done", runs |-> run.runs + 1]
  ELSE [pc |-> "loop", runs |-> run.runs + 1, script |-> script,
        remaining_products |-> remaining_products, i |-> 1,
        completed_products |-> progress.completed_products,
        all_results |-> progress.results,
        last_product_index |-> progress.last_product_index,
        progress |-> [completed_products |-> progress.completed_products,
                      last_product_index |-> progress.last_product_index]]

\* a script is started (and the user answers 'y'): the progress is loaded and the
\* products not yet completed are the ones to process
Start(script) ==
  /\ run.pc \in {"none", "interrupted"}
  /\ run.runs < MaxRuns
  /\ run' = Started(script, load_progress(progress_file),
                    Remaining(load_progress(progress_file).completed_products))
  /\ UNCHANGED <<progress_file, finished>>

\* the script is in its loop at a product
InLoop(script) ==
  run.pc = "loop" /\ run.script = script /\ run.i <= Len(run.remaining_products)

\* the local variables at the end of the iteration for the product: the try body
\* for matches and for no match, the handler of Exception for an exception
AfterProduct(product_name, outcome) ==
  [run EXCEPT
     !.i = @ + 1,
     !.all_results = IF outcome = "matches" THEN Append(@, product_name) ELSE @,
     !.completed_products = @ \cup {product_name}]

\* progress after the assignments that precede save_progress: the handler of
\* Exception leaves last_product_index as it is
Progress(after, outcome) ==
  [completed_products |-> after.completed_products,
   last_product_index |->
     IF outcome = "raised" THEN run.progress.last_product_index
     ELSE run.last_product_index + run.i]

\* one iteration of the loop for the next product, save_progress included when
\* the script saves in this iteration
Iteration(script, saves) ==
  /\ InLoop(script)
  /\ \E outcome \in Outcomes :
       LET product_name == run.remaining_products[run.i]
           after == AfterProduct(product_name, outcome)
       IN /\ finished' = finished \cup {<<product_name, outcome>>}
          /\ IF saves
             THEN /\ run' = [after EXCEPT !.progress = Progress(after, outcome)]
                  /\ progress_file' = Dumped(Progress(after, outcome), after.all_results)
             ELSE /\ run' = after
                  /\ UNCHANGED progress_file

\* KeyboardInterrupt in the iteration of the next product: while its workflow
\* runs, or (when the script saves in this iteration) while save_progress writes;
\* the process prints 'Progress saved. You can resume later.' and returns
Interrupted(script, saves) ==
  /\ InLoop(script)
  /\ run' = [pc |-> "interrupted", runs |-> run.runs]
  /\ \/ UNCHANGED progress_file
     \/ saves /\ progress_file' = Torn
  /\ UNCHANGED finished

\* the end of the loop: the results go to the CSV file and the progress file is removed
Finished(script) ==
  /\ run.pc = "loop" /\ run.script = script /\ run.i > Len(run.remaining_products)
  /\ run' = [pc |-> "done", runs |-> run.runs]
  /\ progress_file' = NoFile
  /\ UNCHANGED finished

InitBulk ==
  /\ op = "init"
  /\ query = ""
  /\ cands = <<>>
  /\ threshold = 0
  /\ out = NoOut
  /\ NoCache /\ NoBulk

Idle == UNCHANGED <<op, query, cands, threshold, out, cache_dir, now>>

\* run_bulk_with_resume: progress is saved in every iteration
StartResumeStep == Start("resume") /\ Idle
ResumeIterationStep == Iteration("resume", TRUE) /\ Idle
ResumeInterruptStep == Interrupted("resume", TRUE) /\ Idle
ResumeFinishStep == Finished("resume") /\ Idle

NextResume ==
  StartResumeStep \/ ResumeIterationStep \/ ResumeInterruptStep \/ ResumeFinishStep

SpecResume == InitBulk /\ [][NextResume]_vars

\* run_bulk_fast: progress is saved every 5 products
SaveEvery == 5

StartFastStep == Start("fast") /\ Idle
FastIterationStep == Iteration("fast", InLoop("fast") /\ run.i % SaveEvery = 0) /\ Idle
FastInterruptStep == Interrupted("fast", InLoop("fast") /\ run.i % SaveEvery = 0) /\ Idle
FastFinishStep == Finished("fast") /\ Idle

NextFast == StartFastStep \/ FastIterationStep \/ FastInterruptStep \/ FastFinishStep

SpecFast == InitBulk /\ [][NextFast]_vars

(***************************************************************************)
(* Properties of the bulk runs                                             *)
(***************************************************************************)
\* the products whose processing has finished, and those of them with matches
FinishedProducts == {f[1] : f \in finished}
MatchedProducts == {f[1] : f \in {g \in finished : g[2] = "matches"}}

\* the products the running script has still to process
ToProcess ==
  {run.remaining_products[k] : k \in run.i..Len(run.remaining_products)}

\* C26: in every run of run_bulk_with_resume, after whatever interruptions, the
\* products still to process are exactly the products of the input whose
\* processing has not finished (with matches, no match or an exception), and the
\* results of the finished ones are kept
C26_ResumeSkipsFinished ==
  (run.pc = "loop" /\ run.script = "resume") =>
    /\ ToProcess = Range(product_names) \ FinishedProducts
    /\ MatchedProducts \subseteq Range(run.all_results)

\* C27: when run_bulk_fast has been interrupted and has reported that progress is
\* saved, every product whose processing finished is in the progress file, with
\* its results
C27_InterruptedIsSaved ==
  (run.pc = "interrupted") =>
    /\ FinishedProducts \subseteq load_progress(progress_file).completed_products
    /\ MatchedProducts \subseteq Range(load_progress(progress_file).results)

====
